---- MODULE Spec2Model ----
(***************************************************************************)
(* Model of the noodleos physical frame allocator                          *)
(* (src/arch/x86_64/memory/physical.rs): the bitmap allocator's state, its *)
(* init from a Multiboot2 memory map and its four public operations.       *)
(*                                                                         *)
(* Conventions                                                             *)
(*  - The bitmap is a function from byte index (0-based) to a byte 0..255. *)
(*  - usize counters are modelled by integers; a value v < 0 stands for    *)
(*    the wrapped machine value 2^64 + v (fetch_sub below zero wraps).     *)
(*  - Option<usize> is the record [some, val].                             *)
(***************************************************************************)
EXTENDS Integers, Sequences, FiniteSets

\* ------------------------------------------------------------------ bounds

\* Physical addresses offered to the model lie in [0, MaxAddrFrames * PAGE_SIZE].
MaxAddrFrames == 4

\* Largest count passed to allocate_frames / free_frames.
MaxCount == 3

\* --------------------------------------------------------------- constants

PAGE_SIZE == 4096

\* MAX_PHYSICAL_MEMORY / PAGE_SIZE (16 GiB of 4 KiB frames).
MAX_FRAMES == 4194304

\* MemoryType::Available and MemoryType::Reserved as stored in an entry.
MemAvailable == 1
MemReserved == 2

\* ------------------------------------------------------------------ Option

None == [some |-> FALSE, val |-> 0]
Some(v) == [some |-> TRUE, val |-> v]

\* --------------------------------------------------------- byte operations

\* (byte & (1u8 << bit)) != 0
TestBit(byte, bit) == (byte \div (2 ^ bit)) % 2 = 1

\* byte | (1u8 << bit)
SetBit(byte, bit) == IF TestBit(byte, bit) THEN byte ELSE byte + 2 ^ bit

\* byte & !(1u8 << bit)
ClearBit(byte, bit) == IF TestBit(byte, bit) THEN byte - 2 ^ bit ELSE byte

\* ------------------------------------------------------- BitmapAllocator

\* BitmapAllocator::new(): empty bitmap, every counter zero.
new == [bitmap |-> [i \in {} |-> 0], total_frames |-> 0, free_frames |-> 0,
        start_frame |-> 0]

\* (addr + align - 1) & !(align - 1), align a power of two.
align_up(addr, align) == ((addr + align - 1) \div align) * align

is_frame_free(self, frame) ==
    IF frame >= self.total_frames THEN FALSE
    ELSE LET byte_index == frame \div 8
             bit_index == frame % 8
         IN  ~TestBit(self.bitmap[byte_index], bit_index)

\* Returns the allocator after the call and whether the frame was allocated.
mark_frame_free(self, frame) ==
    IF frame >= self.total_frames THEN [self |-> self, ret |-> FALSE]
    ELSE LET byte_index == frame \div 8
             bit_index == frame % 8
             was_allocated == TestBit(self.bitmap[byte_index], bit_index)
         IN  [self |-> [self EXCEPT !.bitmap[byte_index] = ClearBit(@, bit_index)],
              ret |-> was_allocated]

\* Mutant: the mask is built from byte_index instead of bit_index.
mark_frame_allocated_wrong_mask(self, frame) ==
    IF frame >= self.total_frames THEN self
    ELSE LET byte_index == frame \div 8
         IN  [self EXCEPT !.bitmap[byte_index] = SetBit(@, byte_index)]

mark_frame_allocated(self, frame) ==
    IF frame >= self.total_frames THEN self
    ELSE LET byte_index == frame \div 8
             bit_index == frame % 8
         IN  [self EXCEPT !.bitmap[byte_index] = SetBit(@, bit_index)]

\* for frame in from..to { mark_frame_free(frame) }
RECURSIVE mark_frames_free(_, _, _)
mark_frames_free(self, from, to) ==
    IF from >= to THEN self
    ELSE mark_frames_free(mark_frame_free(self, from).self, from + 1, to)

\* for frame in from..to { mark_frame_allocated(frame) }
RECURSIVE mark_frames_allocated(_, _, _)
mark_frames_allocated(self, from, to) ==
    IF from >= to THEN self
    ELSE mark_frames_allocated(mark_frame_allocated(self, from), from + 1, to)

Min2(a, b) == IF a <= b THEN a ELSE b

\* Mutant: the region is rounded inward to frame boundaries.
mark_region_free_round_inward(self, start, end) ==
    LET start_frame == (start + PAGE_SIZE - 1) \div PAGE_SIZE
        end_frame == end \div PAGE_SIZE
    IN  mark_frames_free(self, start_frame, Min2(end_frame, self.total_frames))

mark_region_free(self, start, end) ==
    LET start_frame == start \div PAGE_SIZE
        end_frame == (end + PAGE_SIZE - 1) \div PAGE_SIZE
    IN  mark_frames_free(self, start_frame, Min2(end_frame, self.total_frames))

\* Mutant: the end of the region is rounded down to a frame boundary.
mark_region_reserved_round_down(self, start, end) ==
    LET start_frame == start \div PAGE_SIZE
        end_frame == end \div PAGE_SIZE
    IN  mark_frames_allocated(self, start_frame, Min2(end_frame, self.total_frames))

mark_region_reserved(self, start, end) ==
    LET start_frame == start \div PAGE_SIZE
        end_frame == (end + PAGE_SIZE - 1) \div PAGE_SIZE
    IN  mark_frames_allocated(self, start_frame, Min2(end_frame, self.total_frames))

\* for frame in from..total_frames { if is_frame_free(frame) { count += 1 } }
RECURSIVE count_free_from(_, _)
count_free_from(self, frame) ==
    IF frame >= self.total_frames THEN 0
    ELSE (IF is_frame_free(self, frame) THEN 1 ELSE 0) + count_free_from(self, frame + 1)

count_free_frames(self) == count_free_from(self, 0)

\* Mutant: only Available entries count towards the highest address.
RECURSIVE highest_end_of_available(_, _, _)
highest_end_of_available(entries, i, highest_addr) ==
    IF i > Len(entries) THEN highest_addr
    ELSE LET end_addr == entries[i].base_addr + entries[i].length
         IN  highest_end_of_available(entries, i + 1,
                 IF entries[i].mem_type = MemAvailable /\ end_addr > highest_addr
                 THEN end_addr ELSE highest_addr)

\* First loop of init: the largest base_addr + length over all entries.
RECURSIVE highest_end(_, _, _)
highest_end(entries, i, highest_addr) ==
    IF i > Len(entries) THEN highest_addr
    ELSE LET end_addr == entries[i].base_addr + entries[i].length
         IN  highest_end(entries, i + 1,
                         IF end_addr > highest_addr THEN end_addr ELSE highest_addr)

\* Second loop of init: every Available entry is marked free, in map order.
RECURSIVE free_available(_, _, _)
free_available(self, entries, i) ==
    IF i > Len(entries) THEN self
    ELSE IF entries[i].mem_type = MemAvailable
         THEN LET start == entries[i].base_addr
                  end == entries[i].base_addr + entries[i].length
              IN  free_available(mark_region_free(self, start, end), entries, i + 1)
         ELSE free_available(self, entries, i + 1)

\* highest_addr capped at MAX_PHYSICAL_MEMORY, then divided by PAGE_SIZE. The
\* comparison with MAX_FRAMES * PAGE_SIZE is made on the quotient and remainder.
capped_total_frames(highest_addr) ==
    IF \/ highest_addr \div PAGE_SIZE > MAX_FRAMES
       \/ highest_addr \div PAGE_SIZE = MAX_FRAMES /\ highest_addr % PAGE_SIZE > 0
    THEN MAX_FRAMES
    ELSE highest_addr \div PAGE_SIZE

\* BitmapAllocator::init. mmap is boot_info.memory_map(): None, or Some(entries).
init(self, mmap, kernel_start, kernel_end) ==
    LET entries == IF mmap.some THEN mmap.val ELSE << >>
        highest_addr == highest_end(entries, 1, 0)
        total == capped_total_frames(highest_addr)
        bitmap_bytes == (total + 7) \div 8
        bitmap_start == align_up(kernel_end, PAGE_SIZE)
        bitmap_end == bitmap_start + bitmap_bytes
        filled == [self EXCEPT !.total_frames = total,
                               !.bitmap = [i \in 0 .. (bitmap_bytes - 1) |-> 255]]
        freed == free_available(filled, entries, 1)
        kernel == mark_region_reserved(freed, kernel_start, kernel_end)
        own == mark_region_reserved(kernel, bitmap_start, bitmap_end)
    IN  [own EXCEPT !.free_frames = count_free_frames(own)]

\* First free frame in [frame, end), or None.
RECURSIVE first_free(_, _, _)
first_free(self, frame, end) ==
    IF frame >= end THEN None
    ELSE IF is_frame_free(self, frame) THEN Some(frame)
         ELSE first_free(self, frame + 1, end)

\* The body of a hit in allocate_frame.
take_frame(self, frame) ==
    [self |-> [mark_frame_allocated(self, frame) EXCEPT
                   !.free_frames = @ - 1,
                   !.start_frame = frame + 1],
     ret |-> Some(frame * PAGE_SIZE)]

\* Mutant: the wrap-around loop is missing.
allocate_frame_no_wrap(self) ==
    LET upper == first_free(self, self.start_frame, self.total_frames)
    IN  IF upper.some THEN take_frame(self, upper.val)
        ELSE [self |-> self, ret |-> None]

allocate_frame(self) ==
    LET upper == first_free(self, self.start_frame, self.total_frames)
        lower == first_free(self, 0, self.start_frame)
    IN  IF upper.some THEN take_frame(self, upper.val)
        ELSE IF lower.some THEN take_frame(self, lower.val)
        ELSE [self |-> self, ret |-> None]

\* The scan of allocate_frames for count >= 2: the start of the first run of
\* count free frames met going up from frame, or None.
RECURSIVE find_run(_, _, _, _, _)
find_run(self, frame, consecutive, start_frame, count) ==
    IF frame >= self.total_frames THEN None
    ELSE IF is_frame_free(self, frame)
         THEN LET start == IF consecutive = 0 THEN frame ELSE start_frame
              IN  IF consecutive + 1 = count THEN Some(start)
                  ELSE find_run(self, frame + 1, consecutive + 1, start, count)
         ELSE find_run(self, frame + 1, 0, start_frame, count)

\* Mutant: the counter is lowered by one per call instead of by count.
allocate_frames_sub_one(self, count) ==
    IF count = 0 THEN [self |-> self, ret |-> None]
    ELSE IF count = 1 THEN allocate_frame(self)
    ELSE LET run == find_run(self, 0, 0, 0, count)
         IN  IF run.some
             THEN [self |-> [mark_frames_allocated(self, run.val, run.val + count)
                                 EXCEPT !.free_frames = @ - 1,
                                        !.start_frame = run.val + count],
                   ret |-> Some(run.val * PAGE_SIZE)]
             ELSE [self |-> self, ret |-> None]

\* Mutant: the scan for a run starts at the hint instead of frame 0.
allocate_frames_from_hint(self, count) ==
    IF count = 0 THEN [self |-> self, ret |-> None]
    ELSE IF count = 1 THEN allocate_frame(self)
    ELSE LET run == find_run(self, self.start_frame, 0, 0, count)
         IN  IF run.some
             THEN [self |-> [mark_frames_allocated(self, run.val, run.val + count)
                                 EXCEPT !.free_frames = @ - count,
                                        !.start_frame = run.val + count],
                   ret |-> Some(run.val * PAGE_SIZE)]
             ELSE [self |-> self, ret |-> None]

\* Mutant: the hint is left where it was after a contiguous allocation.
allocate_frames_keeps_hint(self, count) ==
    IF count = 0 THEN [self |-> self, ret |-> None]
    ELSE IF count = 1 THEN allocate_frame(self)
    ELSE LET run == find_run(self, 0, 0, 0, count)
         IN  IF run.some
             THEN [self |-> [mark_frames_allocated(self, run.val, run.val + count)
                                 EXCEPT !.free_frames = @ - count],
                   ret |-> Some(run.val * PAGE_SIZE)]
             ELSE [self |-> self, ret |-> None]

allocate_frames(self, count) ==
    IF count = 0 THEN [self |-> self, ret |-> None]
    ELSE IF count = 1 THEN allocate_frame(self)
    ELSE LET run == find_run(self, 0, 0, 0, count)
         IN  IF run.some
             THEN [self |-> [mark_frames_allocated(self, run.val, run.val + count)
                                 EXCEPT !.free_frames = @ - count,
                                        !.start_frame = run.val + count],
                   ret |-> Some(run.val * PAGE_SIZE)]
             ELSE [self |-> self, ret |-> None]

\* Mutant: the frame is released without testing that it is allocated.
free_frame_unchecked(self, phys_addr) ==
    LET frame == phys_addr \div PAGE_SIZE
    IN  IF frame < self.total_frames
        THEN [mark_frame_free(self, frame).self EXCEPT
                  !.free_frames = @ + 1,
                  !.start_frame = IF frame < @ THEN frame ELSE @]
        ELSE self

free_frame(self, phys_addr) ==
    LET frame == phys_addr \div PAGE_SIZE
    IN  IF frame < self.total_frames /\ ~is_frame_free(self, frame)
        THEN [mark_frame_free(self, frame).self EXCEPT
                  !.free_frames = @ + 1,
                  !.start_frame = IF frame < @ THEN frame ELSE @]
        ELSE self

\* Mutant: the loop stops one frame early.
RECURSIVE free_frames_loop_stops_early(_, _, _, _)
free_frames_loop_stops_early(self, start_frame, i, count) ==
    IF i + 1 >= count THEN self
    ELSE LET frame == start_frame + i
             next == IF frame < self.total_frames /\ ~is_frame_free(self, frame)
                     THEN [mark_frame_free(self, frame).self EXCEPT
                               !.free_frames = @ + 1]
                     ELSE self
         IN  free_frames_loop_stops_early(next, start_frame, i + 1, count)

\* Mutant: the counter is raised for frames that are already free.
RECURSIVE free_frames_loop_unchecked(_, _, _, _)
free_frames_loop_unchecked(self, start_frame, i, count) ==
    IF i >= count THEN self
    ELSE LET frame == start_frame + i
             next == IF frame < self.total_frames
                     THEN [mark_frame_free(self, frame).self EXCEPT
                               !.free_frames = @ + 1]
                     ELSE self
         IN  free_frames_loop_unchecked(next, start_frame, i + 1, count)

\* for i in i..count of free_frames.
RECURSIVE free_frames_loop(_, _, _, _)
free_frames_loop(self, start_frame, i, count) ==
    IF i >= count THEN self
    ELSE LET frame == start_frame + i
             next == IF frame < self.total_frames /\ ~is_frame_free(self, frame)
                     THEN [mark_frame_free(self, frame).self EXCEPT
                               !.free_frames = @ + 1]
                     ELSE self
         IN  free_frames_loop(next, start_frame, i + 1, count)

free_frames(self, phys_addr, count) ==
    LET start_frame == phys_addr \div PAGE_SIZE
        freed == free_frames_loop(self, start_frame, 0, count)
    IN  IF start_frame < freed.start_frame
        THEN [freed EXCEPT !.start_frame = start_frame]
        ELSE freed

get_free_frames(self) == self.free_frames

\* usize::saturating_sub; b < 0 stands for a wrapped (huge) value.
saturating_sub(a, b) == IF b < 0 \/ b > a THEN 0 ELSE a - b

allocated_frames(self) == saturating_sub(self.total_frames, get_free_frames(self))

memory_stats(self) == <<self.total_frames, get_free_frames(self), allocated_frames(self)>>

\* ------------------------------------------------------------ state machine

VARIABLES
    bitmap,        \* BitmapAllocator.bitmap
    total_frames,  \* BitmapAllocator.total_frames
    free_count,    \* BitmapAllocator.free_frames (the atomic free counter)
    start_frame,   \* BitmapAllocator.start_frame (the search hint)
    initialized,   \* init has been called
    lastOp,        \* the last call: its name, arguments and return value
    live,          \* frames returned by an allocation and not passed to a free since
    origin,        \* what init left, kept while every free was of a live frame
    boot,          \* the arguments init was called with
    mem,           \* physical memory read as page tables: frame -> index -> entry
    tlb,           \* the TLB: page -> the leaf entry the processor has cached
    pc,            \* the call in progress and its position, Idle between calls
    info,          \* what the boot loader passed: magic, address, the info blob
    reads          \* the byte offsets of the info blob read so far

vars == <<bitmap, total_frames, free_count, start_frame, initialized, lastOp,
          live, origin, boot, mem, tlb, pc, info, reads>>

\* PHYSICAL_ALLOCATOR as a value.
Self == [bitmap |-> bitmap, total_frames |-> total_frames,
         free_frames |-> free_count, start_frame |-> start_frame]

\* The allocator's fields hold the value s.
SetSelfNow(s) ==
    /\ bitmap = s.bitmap
    /\ total_frames = s.total_frames
    /\ free_count = s.free_frames
    /\ start_frame = s.start_frame

SetSelf(s) ==
    /\ bitmap' = s.bitmap
    /\ total_frames' = s.total_frames
    /\ free_count' = s.free_frames
    /\ start_frame' = s.start_frame

\* Addresses on a half-page grid, so that unaligned ones occur.
Addrs == {k * (PAGE_SIZE \div 2) : k \in 0 .. 2 * MaxAddrFrames}

Regions ==
    {[base_addr |-> p[1], length |-> p[2] - p[1], mem_type |-> t] :
        p \in {q \in Addrs \X Addrs : q[1] < q[2]},
        t \in {MemAvailable, MemReserved}}

\* What boot_info.memory_map() can return: no MemoryMap tag, or its entries
\* (none, or one region of either type, aligned or not).
MemoryMaps == {None} \cup {Some(<< >>)} \cup {Some(<<r>>) : r \in Regions}

Call(op, addr, count, ret) == [op |-> op, addr |-> addr, count |-> count, ret |-> ret]

Broken == [ok |-> FALSE, bitmap |-> new.bitmap, free |-> 0, protected |-> {}]

\* Frames below total that share a byte with [from, to).
FramesTouching(from, to, total) ==
    {k \in 0 .. (total - 1) : from < to /\ k * PAGE_SIZE < to /\ from < (k + 1) * PAGE_SIZE}

\* The kernel image rounded outward to 4 KiB and the bitmap's own storage.
Protected(kernel_start, kernel_end, total) ==
    LET bitmap_start == align_up(kernel_end, PAGE_SIZE)
    IN  FramesTouching((kernel_start \div PAGE_SIZE) * PAGE_SIZE,
                       align_up(kernel_end, PAGE_SIZE), total)
        \cup FramesTouching(bitmap_start, bitmap_start + (total + 7) \div 8, total)

\* The frames a successful allocation of count frames at address addr covers.
Covered(addr, count) == {addr \div PAGE_SIZE + i : i \in 0 .. (count - 1)}

\* What init was given: boot_info.memory_map() and the kernel image's bounds.
BootArgs(mmap, kernel_start, kernel_end) ==
    [mmap |-> mmap, kernel_start |-> kernel_start, kernel_end |-> kernel_end]

\* No frame holds a page table.
NoTables == [f \in {} |-> 0]

\* No page is cached, no call is in progress, no boot information was passed.
NoTlb == [p \in {} |-> 0]
Idle == [op |-> "idle"]
NoInfo == [magic |-> 0, addr |-> 0, total_size |-> 0, words |-> << >>]

Init ==
    /\ bitmap = new.bitmap
    /\ total_frames = new.total_frames
    /\ free_count = new.free_frames
    /\ start_frame = new.start_frame
    /\ initialized = FALSE
    /\ lastOp = Call("new", 0, 0, None)
    /\ live = {}
    /\ origin = [ok |-> TRUE, bitmap |-> new.bitmap, free |-> 0, protected |-> {}]
    /\ boot = BootArgs(None, 0, 0)
    /\ mem = NoTables
    /\ tlb = NoTlb
    /\ pc = Idle
    /\ info = NoInfo
    /\ reads = {}

\* init_physical_allocator(boot_info, kernel_start, kernel_end), called once.
InitAllocator ==
    /\ ~initialized
    /\ \E mmap \in MemoryMaps, kernel_start \in Addrs, kernel_end \in Addrs :
        /\ kernel_start <= kernel_end
        /\ LET s == init(Self, mmap, kernel_start, kernel_end)
           IN  /\ SetSelf(s)
               /\ origin' = IF origin.ok
                            THEN [ok |-> TRUE, bitmap |-> s.bitmap, free |-> s.free_frames,
                                  protected |-> Protected(kernel_start, kernel_end,
                                                          s.total_frames)]
                            ELSE origin
    /\ initialized' = TRUE
    /\ lastOp' = Call("init", 0, 0, None)
    /\ UNCHANGED <<live, boot, mem, tlb, pc, info, reads>>

\* physical::allocate_frame()
AllocateFrame ==
    LET r == allocate_frame(Self)
    IN  /\ SetSelf(r.self)
        /\ lastOp' = Call("allocate_frame", 0, 1, r.ret)
        /\ live' = IF r.ret.some THEN live \cup Covered(r.ret.val, 1) ELSE live
        /\ UNCHANGED <<initialized, origin, boot, mem, tlb, pc, info, reads>>

\* physical::allocate_frames(count)
AllocateFrames ==
    \E count \in 0 .. MaxCount :
        LET r == allocate_frames(Self, count)
        IN  /\ SetSelf(r.self)
            /\ lastOp' = Call("allocate_frames", 0, count, r.ret)
            /\ live' = IF r.ret.some THEN live \cup Covered(r.ret.val, count) ELSE live
            /\ UNCHANGED <<initialized, origin, boot, mem, tlb, pc, info, reads>>

\* physical::free_frame(phys_addr)
FreeFrame ==
    \E phys_addr \in Addrs :
        /\ SetSelf(free_frame(Self, phys_addr))
        /\ lastOp' = Call("free_frame", phys_addr, 1, None)
        /\ live' = live \ Covered(phys_addr, 1)
        /\ origin' = IF phys_addr % PAGE_SIZE = 0 /\ Covered(phys_addr, 1) \subseteq live
                     THEN origin ELSE Broken
        /\ UNCHANGED <<initialized, boot, mem, tlb, pc, info, reads>>

\* physical::free_frames(phys_addr, count)
FreeFrames ==
    \E phys_addr \in Addrs, count \in 0 .. MaxCount :
        /\ SetSelf(free_frames(Self, phys_addr, count))
        /\ lastOp' = Call("free_frames", phys_addr, count, None)
        /\ live' = live \ Covered(phys_addr, count)
        /\ origin' = IF phys_addr % PAGE_SIZE = 0 /\ Covered(phys_addr, count) \subseteq live
                     THEN origin ELSE Broken
        /\ UNCHANGED <<initialized, boot, mem, tlb, pc, info, reads>>

Next ==
    \/ InitAllocator
    \/ AllocateFrame
    \/ AllocateFrames
    \/ FreeFrame
    \/ FreeFrames

Spec == Init /\ [][Next]_vars

\* ------------------------------------------------- vocabulary of the claims

\* Bit k of a bitmap: byte k / 8, bit k % 8, least significant bit first.
BitAt(bm, k) == TestBit(bm[k \div 8], k % 8)

\* The frames of [0, total) whose bit is 0.
FreeOf(bm, total) == {k \in 0 .. (total - 1) : ~BitAt(bm, k)}

FreeNow == FreeOf(bitmap, total_frames)

MinOf(S) == CHOOSE x \in S : \A y \in S : x <= y

Bit(c) == IF c THEN 1 ELSE 0

\* The bitmap over the bytes of bm in which bit k is 1 exactly when IsSet(k).
BitmapWhere(bm, IsSet(_)) ==
    [i \in DOMAIN bm |->
        Bit(IsSet(8 * i)) + 2 * Bit(IsSet(8 * i + 1)) + 4 * Bit(IsSet(8 * i + 2))
        + 8 * Bit(IsSet(8 * i + 3)) + 16 * Bit(IsSet(8 * i + 4))
        + 32 * Bit(IsSet(8 * i + 5)) + 64 * Bit(IsSet(8 * i + 6))
        + 128 * Bit(IsSet(8 * i + 7))]

\* The current bitmap with the bits of Also set / with the bits of Drop cleared.
BitmapPlus(Also) == BitmapWhere(bitmap, LAMBDA k : BitAt(bitmap, k) \/ k \in Also)
BitmapMinus(Drop) == BitmapWhere(bitmap, LAMBDA k : BitAt(bitmap, k) /\ k \notin Drop)

\* The starts of the runs of count consecutive free frames in [0, total_frames).
Runs(count) ==
    {first \in 0 .. (total_frames - count) :
        \A i \in 0 .. (count - 1) : first + i \in FreeNow}

\* The allocator's fields, and the step that leaves all of them alone.
alloc == <<bitmap, total_frames, free_count, start_frame>>

\* The step is a call of op (lastOp is written by every call).
Called(op) == lastOp'.op = op

\* The step is an allocation that returned Some address.
Allocated == lastOp'.op \in {"allocate_frame", "allocate_frames"} /\ lastOp'.ret.some

\* The allocator after the step.
SelfAfter == [bitmap |-> bitmap', total_frames |-> total_frames',
              free_frames |-> free_count', start_frame |-> start_frame']

\* ------------------------------------------------------------------ claims

\* C1: in every state reached after init by any calls of allocate_frame,
\* allocate_frames, free_frame and free_frames, the free counter equals the
\* number of zero bits of the bitmap at the indices in [0, total_frames).
C1_FreeCountIsZeroBits ==
    initialized => free_count = Cardinality(FreeNow)

\* A state after init in which a free_frames call of two frames has run and the
\* bitmap holds both free and allocated frames.
C1_Witness ==
    /\ initialized
    /\ lastOp.op = "free_frames"
    /\ lastOp.count = 2
    /\ FreeNow # {}
    /\ FreeNow # 0 .. (total_frames - 1)
    /\ live # {}

\* C2: every frame covered by a successful allocate_frame or allocate_frames(n)
\* lies below total_frames, had its bit clear immediately before the call, was
\* not live (handed out and not freed since), and is set after it; every live
\* frame stays marked allocated; two successive allocate_frame calls return
\* distinct addresses.
C2_NeverHandsOutLiveFrame ==
    [][/\ Allocated =>
            \A k \in Covered(lastOp'.ret.val, lastOp'.count) :
                /\ k < total_frames
                /\ ~BitAt(bitmap, k)
                /\ k \notin live
                /\ BitAt(bitmap', k)
       /\ \A k \in live' : k < total_frames' /\ BitAt(bitmap', k)
       /\ (/\ lastOp.op = "allocate_frame" /\ lastOp.ret.some
           /\ lastOp'.op = "allocate_frame" /\ lastOp'.ret.some)
            => lastOp'.ret.val # lastOp.ret.val]_vars

\* A state right after allocate_frames(2) succeeded while another frame,
\* handed out earlier, was still live.
C2_Witness ==
    /\ lastOp.op = "allocate_frames"
    /\ lastOp.count = 2
    /\ lastOp.ret.some
    /\ Cardinality(live) >= 3

\* C3: allocate_frame returns the lowest free frame at or above the hint if
\* there is one, otherwise the lowest free frame below it; on a hit it sets
\* that bit only, lowers the free counter by 1, sets the hint to idx + 1 and
\* returns idx * 4096; it returns None, changing nothing, exactly when no
\* frame of [0, total_frames) is free.
C3_AllocateFrameFirstFit ==
    [][Called("allocate_frame") =>
         IF FreeNow = {}
         THEN lastOp'.ret = None /\ UNCHANGED alloc
         ELSE LET above == {k \in FreeNow : k >= start_frame}
                  idx == IF above # {} THEN MinOf(above) ELSE MinOf(FreeNow)
              IN  /\ lastOp'.ret = Some(idx * PAGE_SIZE)
                  /\ bitmap' = BitmapPlus({idx})
                  /\ free_count' = free_count - 1
                  /\ start_frame' = idx + 1
                  /\ total_frames' = total_frames]_vars

\* A state right after allocate_frame returned a frame although a lower frame
\* is free: the scan started at the hint, not at frame 0.
C3_Witness ==
    /\ lastOp.op = "allocate_frame"
    /\ lastOp.ret.some
    /\ start_frame = lastOp.ret.val \div PAGE_SIZE + 1
    /\ \E k \in FreeNow : k < lastOp.ret.val \div PAGE_SIZE

\* C4: allocate_frames(0) returns None and changes nothing; for n >= 2 a
\* successful call sets exactly the n bits first .. first+n-1, all clear
\* before, lowers the free counter by n, sets the hint to first + n and
\* returns first * 4096; when no run of n free frames exists it returns None
\* and changes nothing.
C4_AllocateFramesContract ==
    [][(Called("allocate_frames") /\ lastOp'.count # 1) =>
         LET n == lastOp'.count
         IN  IF n = 0 \/ Runs(n) = {}
             THEN lastOp'.ret = None /\ UNCHANGED alloc
             ELSE LET first == lastOp'.ret.val \div PAGE_SIZE
                  IN  /\ lastOp'.ret = Some(first * PAGE_SIZE)
                      /\ first \in Runs(n)
                      /\ bitmap' = BitmapPlus(first .. (first + n - 1))
                      /\ free_count' = free_count - n
                      /\ start_frame' = first + n
                      /\ total_frames' = total_frames]_vars

\* A state right after allocate_frames(3) succeeded.
C4_Witness ==
    /\ lastOp.op = "allocate_frames"
    /\ lastOp.count = 3
    /\ lastOp.ret.some
    /\ Covered(lastOp.ret.val, 3) \subseteq live

\* C5 as stated: for every n >= 1 a successful allocate_frames(n) returns the
\* run with the lowest starting index among the runs of n free frames,
\* whatever the hint.
C5_LowestRunForEveryCount ==
    [][(Called("allocate_frames") /\ lastOp'.count >= 1 /\ lastOp'.ret.some) =>
         /\ Runs(lastOp'.count) # {}
         /\ lastOp'.ret.val = MinOf(Runs(lastOp'.count)) * PAGE_SIZE]_vars

\* C5 as amended: for n >= 2 a successful allocate_frames(n) returns the run
\* with the lowest starting index, whatever the hint; for n = 1 it returns
\* what allocate_frame returns: the lowest free frame at or above the hint,
\* and the lowest free frame only when none is free at or above the hint.
C5_LowestRunFromTwo ==
    [][(Called("allocate_frames") /\ lastOp'.count >= 1 /\ lastOp'.ret.some) =>
         IF lastOp'.count >= 2
         THEN /\ Runs(lastOp'.count) # {}
              /\ lastOp'.ret.val = MinOf(Runs(lastOp'.count)) * PAGE_SIZE
         ELSE LET above == {k \in FreeNow : k >= start_frame}
              IN  /\ FreeNow # {}
                  /\ lastOp'.ret.val =
                        PAGE_SIZE * (IF above # {} THEN MinOf(above) ELSE MinOf(FreeNow))]_vars

\* A state right after allocate_frames(2) took a run that starts above a free
\* frame too short a run to serve it, with the hint moved past the run.
C5_Witness ==
    /\ lastOp.op = "allocate_frames"
    /\ lastOp.count = 2
    /\ lastOp.ret.some
    /\ start_frame = lastOp.ret.val \div PAGE_SIZE + 2
    /\ \E k \in FreeNow : k < lastOp.ret.val \div PAGE_SIZE

\* C6: free_frame(addr) with idx = addr / 4096: if idx < total_frames and the
\* bit is set it clears that bit only, raises the free counter by 1 and sets
\* the hint to min(hint, idx); otherwise (frame already free, or idx beyond
\* total_frames) bitmap, counter and hint are unchanged.
C6_FreeFrameContract ==
    [][Called("free_frame") =>
         LET idx == lastOp'.addr \div PAGE_SIZE
         IN  IF idx < total_frames /\ BitAt(bitmap, idx)
             THEN /\ bitmap' = BitmapMinus({idx})
                  /\ free_count' = free_count + 1
                  /\ start_frame' = Min2(start_frame, idx)
                  /\ total_frames' = total_frames
             ELSE UNCHANGED alloc]_vars

\* A state right after free_frame released a frame that an allocation had
\* handed out (every free so far was of a live frame), the hint now on it.
C6_Witness ==
    /\ initialized
    /\ origin.ok
    /\ lastOp.op = "free_frame"
    /\ lastOp.addr \div PAGE_SIZE \in FreeNow
    /\ start_frame = lastOp.addr \div PAGE_SIZE
    /\ live # {}

\* n successive free_frame calls on addr, addr + 4096, ...
RECURSIVE FreeEach(_, _, _)
FreeEach(self, addr, n) ==
    IF n = 0 THEN self
    ELSE FreeEach(free_frame(self, addr), addr + PAGE_SIZE, n - 1)

\* C7: free_frames(addr, n) leaves the allocator (bitmap, free counter and
\* hint) as n successive free_frame calls on addr, addr + 4096, ... leave it.
C7_FreeFramesIsRepeatedFreeFrame ==
    [][Called("free_frames") =>
         SelfAfter = FreeEach(Self, lastOp'.addr, lastOp'.count)]_vars

\* C8: once every frame handed out since init has been freed again, each by a
\* free of that frame alone or within a run of live frames, the bitmap and the
\* free counter equal what init left.
C8_RoundTrip ==
    (initialized /\ origin.ok /\ live = {}) =>
        bitmap = origin.bitmap /\ free_count = origin.free

\* A state right after free_frames returned two live frames at once, with
\* nothing live any more.
C8_Witness ==
    /\ initialized
    /\ origin.ok
    /\ live = {}
    /\ lastOp.op = "free_frames"
    /\ lastOp.count = 2
    /\ Covered(lastOp.addr, 2) \subseteq FreeNow
    /\ FreeNow # 0 .. (total_frames - 1)

\* C9: in every state, before and after init, memory_stats() returns
\* (total, free, allocated) with total = free + allocated: the free counter
\* neither exceeds total_frames nor wraps below zero.
C9_Conservation ==
    LET stats == memory_stats(Self)
    IN  /\ stats[1] = stats[2] + stats[3]
        /\ 0 <= free_count
        /\ free_count <= total_frames

\* A state after init with free and allocated frames, reached by a free that
\* named a frame that was not live (already free, reserved or out of range).
C9_Witness ==
    /\ initialized
    /\ ~origin.ok
    /\ lastOp.op = "free_frame"
    /\ memory_stats(Self)[2] > 0
    /\ memory_stats(Self)[3] > 0

\* C10: after init, as long as every free is of a frame an allocation
\* returned, every frame below total_frames that overlaps the kernel image
\* (rounded outward to 4 KiB) or the bitmap's own storage is marked allocated
\* and is not held by any caller (no allocation has returned it).
C10_KernelAndBitmapStayReserved ==
    (initialized /\ origin.ok) =>
        \A k \in origin.protected : BitAt(bitmap, k) /\ k \notin live

\* A state in which an allocation failed for lack of free frames while
\* callers hold frames and two or more frames are protected.
C10_Witness ==
    /\ initialized
    /\ origin.ok
    /\ Cardinality(origin.protected) >= 2
    /\ live # {}
    /\ lastOp.op = "allocate_frame"
    /\ ~lastOp.ret.some

\* ------------------------------------------- init on richer memory maps

\* Frames spanned by the half-page grid the memory maps of InitSpec are drawn on.
MaxInitFrames == 3

\* A mem_type outside the MemoryType enum: from_u32 gives None for it.
MemUnknown == 7

InitAddrs == {k * (PAGE_SIZE \div 2) : k \in 0 .. 2 * MaxInitFrames}

\* One memory-map entry of any type, aligned or not.
InitRegions ==
    {[base_addr |-> p[1], length |-> p[2] - p[1], mem_type |-> t] :
        p \in {q \in InitAddrs \X InitAddrs : q[1] < q[2]},
        t \in {MemAvailable, MemReserved, MemUnknown}}

\* Maps of up to two entries: disjoint, adjacent, overlapping, with gaps.
RichMaps ==
    {None} \cup {Some(<< >>)} \cup {Some(<<r>>) : r \in InitRegions}
    \cup {Some(<<r1, r2>>) : r1 \in InitRegions, r2 \in InitRegions}

\* The map whose only region is Available [0x100000, 0x200000).
ScenarioMap ==
    Some(<<[base_addr |-> 1048576, length |-> 1048576, mem_type |-> MemAvailable]>>)

\* init_physical_allocator on a map of RichMaps.
InitFromMap ==
    /\ ~initialized
    /\ \E mmap \in RichMaps, kernel_start \in InitAddrs, kernel_end \in InitAddrs :
        /\ kernel_start <= kernel_end
        /\ SetSelf(init(Self, mmap, kernel_start, kernel_end))
        /\ boot' = BootArgs(mmap, kernel_start, kernel_end)
    /\ initialized' = TRUE
    /\ lastOp' = Call("init", 0, 0, None)
    /\ UNCHANGED <<live, origin, mem, tlb, pc, info, reads>>

\* init_physical_allocator on ScenarioMap with the kernel at [0x100000, 0x110000).
InitFromScenario ==
    /\ ~initialized
    /\ SetSelf(init(Self, ScenarioMap, 1048576, 1114112))
    /\ boot' = BootArgs(ScenarioMap, 1048576, 1114112)
    /\ initialized' = TRUE
    /\ lastOp' = Call("init", 0, 0, None)
    /\ UNCHANGED <<live, origin, mem, tlb, pc, info, reads>>

InitNext ==
    \/ InitFromMap
    \/ InitFromScenario

InitSpec == Init /\ [][InitNext]_vars

\* The entries init was given (none without a memory map).
BootEntries == IF boot.mmap.some THEN boot.mmap.val ELSE << >>

\* Frame k shares a byte with entry e.
FrameMeets(k, e) ==
    /\ e.length > 0
    /\ k * PAGE_SIZE < e.base_addr + e.length
    /\ e.base_addr < (k + 1) * PAGE_SIZE

\* Frame k lies in entry e's range rounded outward to frame boundaries.
FrameInOutward(k, e) ==
    /\ e.base_addr \div PAGE_SIZE <= k
    /\ k < (e.base_addr + e.length + PAGE_SIZE - 1) \div PAGE_SIZE

\* The largest base_addr + length over the entries, 0 without entries.
MaxEnd ==
    IF BootEntries = << >> THEN 0
    ELSE LET Ends == {BootEntries[i].base_addr + BootEntries[i].length :
                        i \in DOMAIN BootEntries}
         IN  CHOOSE x \in Ends : \A y \in Ends : y <= x

\* C11: after init, for every memory map, every frame below total_frames that
\* holds a byte of a region whose mem_type is not Available is marked allocated.
C11_NonAvailableIsAllocated ==
    initialized =>
        \A k \in 0 .. (total_frames - 1) :
            (\E i \in DOMAIN BootEntries :
                /\ BootEntries[i].mem_type # MemAvailable
                /\ FrameMeets(k, BootEntries[i]))
            => BitAt(bitmap, k)

AvailableOutward ==
    {k \in 0 .. (total_frames - 1) :
        \E i \in DOMAIN BootEntries :
            /\ BootEntries[i].mem_type = MemAvailable
            /\ FrameInOutward(k, BootEntries[i])}

\* C13: immediately after init the free frames are exactly the frames below
\* total_frames in the outward-rounded range of some Available entry, minus the
\* frames of the outward-rounded kernel range and of the bitmap's own span;
\* every other frame is allocated and the free counter is the size of that set.
C13_FreeSetAfterInit ==
    initialized =>
        LET Expected == AvailableOutward
                        \ Protected(boot.kernel_start, boot.kernel_end, total_frames)
        IN  /\ FreeNow = Expected
            /\ \A k \in (0 .. (total_frames - 1)) \ Expected : BitAt(bitmap, k)
            /\ free_count = Cardinality(Expected)

\* A state after init on a map with two Available entries, one of them not
\* frame-aligned, where the kernel range and the bitmap's span each take a frame
\* out of an Available range and both free and allocated frames remain.
C13_Witness ==
    /\ initialized
    /\ Len(BootEntries) = 2
    /\ \A i \in DOMAIN BootEntries : BootEntries[i].mem_type = MemAvailable
    /\ \E i \in DOMAIN BootEntries : BootEntries[i].base_addr % PAGE_SIZE # 0
    /\ boot.kernel_start < boot.kernel_end
    /\ Protected(boot.kernel_start, boot.kernel_end, total_frames) \subseteq AvailableOutward
    /\ Cardinality(Protected(boot.kernel_start, boot.kernel_end, total_frames)) = 2
    /\ FreeNow # {}
    /\ free_count < Cardinality(AvailableOutward)

\* ------------------------------------------------- paging: words and entries

\* A u64 as three bit fields: lo is bits 0..11, mid bits 12..51, hi bits 52..63.
U64(hi, mid, lo) == [hi |-> hi, mid |-> mid, lo |-> lo]

\* a | b and a & b on naturals, bit by bit.
RECURSIVE BitOr(_, _)
BitOr(a, b) ==
    IF a = 0 THEN b
    ELSE IF b = 0 THEN a
    ELSE (IF a % 2 = 1 \/ b % 2 = 1 THEN 1 ELSE 0) + 2 * BitOr(a \div 2, b \div 2)

RECURSIVE BitAnd(_, _)
BitAnd(a, b) ==
    IF a = 0 \/ b = 0 THEN 0
    ELSE (IF a % 2 = 1 /\ b % 2 = 1 THEN 1 ELSE 0) + 2 * BitAnd(a \div 2, b \div 2)

Or64(a, b) == U64(BitOr(a.hi, b.hi), BitOr(a.mid, b.mid), BitOr(a.lo, b.lo))

\* PageTableFlags: bit n of the low twelve is 2^n in lo, bit 63 is 2^11 in hi.
PRESENT == U64(0, 0, 1)
WRITABLE == U64(0, 0, 2)
USER_ACCESSIBLE == U64(0, 0, 4)
WRITE_THROUGH == U64(0, 0, 8)
NO_CACHE == U64(0, 0, 16)
ACCESSED == U64(0, 0, 32)
DIRTY == U64(0, 0, 64)
HUGE_PAGE == U64(0, 0, 128)
GLOBAL == U64(0, 0, 256)
NO_EXECUTE == U64(2048, 0, 0)
empty == U64(0, 0, 0)

\* (self & other) == other, compared field by field.
contains(self, other) ==
    /\ BitAnd(self.lo, other.lo) = other.lo
    /\ BitAnd(self.mid, other.mid) = other.mid
    /\ BitAnd(self.hi, other.hi) = other.hi
union(self, other) == Or64(self, other)
bits(self) == self

\* PageTableEntry: the entry is its u64.
entry_new == U64(0, 0, 0)
is_unused(entry) == entry = U64(0, 0, 0)
set_unused == U64(0, 0, 0)

\* entry & 0xFFF: the whole of field lo and nothing else.
entry_flags(entry) == U64(0, 0, entry.lo)

\* entry & 0x000F_FFFF_FFFF_F000: the whole of field mid and nothing else.
entry_addr(entry) == U64(0, entry.mid, 0)

\* PhysAddr::align_down(4096), PhysFrame::containing_address, start_address. A
\* PhysFrame is represented by its start address.
phys_align_down(addr) == U64(addr.hi, addr.mid, 0)
frame_containing_address(addr) == phys_align_down(addr)
frame_start_address(frame) == frame

entry_frame(entry) == frame_containing_address(entry_addr(entry))

\* set_addr: addr.0 | flags.bits(); the caller passes an aligned address (the
\* assert of line 117 holds for every PhysFrame start address).
set_addr(addr, flags) == Or64(addr, bits(flags))

\* set_flags: self.addr().0 | flags.bits()
set_flags(entry, flags) == Or64(entry_addr(entry), bits(flags))

\* PhysAddr::new(addr as u64) of a usize the allocator returned, and
\* start_address().as_u64() as usize of a frame below 2^52.
PhysAddr_new(a) == U64(0, a \div PAGE_SIZE, a % PAGE_SIZE)
as_usize(addr) == addr.mid * PAGE_SIZE + addr.lo

\* frame_addr + offset, with the carry out of the low twelve bits.
phys_add(addr, offset) ==
    U64(addr.hi, addr.mid + (addr.lo + offset) \div PAGE_SIZE, (addr.lo + offset) % PAGE_SIZE)

\* A VirtAddr written in the mixed radix 4096, 512, 512, 512, 512, 65536:
\* off is bits 0..11, i1 bits 12..20, i2 bits 21..29, i3 bits 30..38, i4 bits
\* 39..47 and top bits 48..63.
VirtAddr(top, i4, i3, i2, i1, off) ==
    [top |-> top, i4 |-> i4, i3 |-> i3, i2 |-> i2, i1 |-> i1, off |-> off]

\* (addr >> (12 + 9 * (level - 1))) & 0x1FF
page_table_index(addr, level) ==
    CASE level = 1 -> addr.i1
      [] level = 2 -> addr.i2
      [] level = 3 -> addr.i3
      [] level = 4 -> addr.i4

\* addr & 0xFFF
page_offset(addr) == addr.off

\* Page::containing_address and start_address; a Page is its start address.
page_containing_address(addr) == [addr EXCEPT !.off = 0]
page_start_address(page) == page

\* Result values and the two error enums.
Ok(v) == [ok |-> TRUE, val |-> v]
Err(e) == [ok |-> FALSE, val |-> e]

\* PageTable::zero, on the indices the model keeps of the 512.
MaxIndex == 1
Indices == 0 .. MaxIndex
ZeroTable == [i \in Indices |-> entry_new]

\* Mutant: the frame is returned without being marked allocated.
bfa_allocate_frame_unmarked(self) ==
    LET r == allocate_frame(self)
    IN  [self |-> self,
         ret |-> IF r.ret.some THEN Ok(frame_containing_address(PhysAddr_new(r.ret.val)))
                 ELSE Err("OutOfMemory")]

\* Mutant: a failed allocation is turned into the frame at address 0.
bfa_allocate_frame_or_zero(self) ==
    LET r == allocate_frame(self)
    IN  [self |-> r.self,
         ret |-> Ok(frame_containing_address(
                        PhysAddr_new(IF r.ret.some THEN r.ret.val ELSE 0)))]

\* BitmapFrameAllocator over the global allocator.
bfa_allocate_frame(self) ==
    LET r == allocate_frame(self)
    IN  [self |-> r.self,
         ret |-> IF r.ret.some THEN Ok(frame_containing_address(PhysAddr_new(r.ret.val)))
                 ELSE Err("OutOfMemory")]

bfa_deallocate_frame(self, frame) == free_frame(self, as_usize(frame_start_address(frame)))

\* ------------------------------------------------------------- the mapper

\* The frame of the table Mapper.pml4 refers to.
Pml4Frame == 0

\* A mapper state st has the page-table memory mem (frame number -> table), the
\* global allocator self and the set flushed of addresses given to flush_page.
MapperState(m, self, flushed) == [mem |-> m, self |-> self, flushed |-> flushed]

\* The table an entry's address points to: the address used as a pointer.
table_at(addr) == addr.mid

\* The loop of page_table_entry and page_table_entry_readonly from level down
\* to 2, then the level-1 slot: Ok(table, index) of the leaf entry, or the error.
RECURSIVE walk(_, _, _, _)
walk(m, table, level, addr) ==
    LET index == page_table_index(addr, level)
    IN  IF level = 1 THEN Ok([table |-> table, index |-> index])
        ELSE LET entry == m[table][index]
             IN  IF ~contains(entry_flags(entry), PRESENT) THEN Err("PageAlreadyMapped")
                 ELSE IF contains(entry_flags(entry), HUGE_PAGE)
                      THEN Err("ParentEntryHugePage")
                      ELSE walk(m, table_at(entry_addr(entry)), level - 1, addr)

page_table_entry_readonly(m, page) == walk(m, Pml4Frame, 4, page_start_address(page))

page_table_entry(m, page) == walk(m, Pml4Frame, 4, page_start_address(page))

\* Mutant: the new table keeps what the frame held.
zero_keeps_contents(m, f) ==
    [g \in DOMAIN m \cup {f} |-> IF g \in DOMAIN m THEN m[g] ELSE ZeroTable]

\* The table at frame number f zeroed, whatever the frame held.
zero(m, f) == [g \in DOMAIN m \cup {f} |-> IF g = f THEN ZeroTable ELSE m[g]]

\* The `if !PRESENT` block of create_page_table_entry for the entry at index of
\* table: a is the result of allocator.allocate_frame(), which is called only
\* when the entry is not PRESENT. The new table is zeroed, then linked with
\* PRESENT | WRITABLE | USER_ACCESSIBLE.
create_missing(st, table, index, a) ==
    IF contains(entry_flags(st.mem[table][index]), PRESENT)
    THEN [st |-> st, ret |-> Ok(<<>>)]
    ELSE IF ~a.ret.ok THEN [st |-> st, ret |-> Err("FrameAllocationFailed")]
    ELSE [st |-> [st EXCEPT
                     !.mem = [zero(st.mem, table_at(frame_start_address(a.ret.val)))
                                 EXCEPT ![table][index] =
                                     set_addr(frame_start_address(a.ret.val),
                                              union(union(PRESENT, WRITABLE),
                                                    USER_ACCESSIBLE))],
                     !.self = a.self],
          ret |-> Ok(<<>>)]

\* The loop of create_page_table_entry from level down to 2, then the level-1
\* slot. create_descend is the rest of one iteration after the `if` block.
RECURSIVE create_walk(_, _, _, _)
RECURSIVE create_descend(_, _, _, _)
create_walk(st, table, level, addr) ==
    IF level = 1
    THEN [st |-> st, ret |-> Ok([table |-> table, index |-> page_table_index(addr, 1)])]
    ELSE create_descend(create_missing(st, table, page_table_index(addr, level),
                                       bfa_allocate_frame(st.self)),
                        table, level, addr)

\* Mutant: the create walk follows a huge-page entry like a table.
create_descend_follows_huge(r, table, level, addr) ==
    IF ~r.ret.ok THEN r
    ELSE create_walk(r.st,
                     table_at(entry_addr(r.st.mem[table][page_table_index(addr, level)])),
                     level - 1, addr)

create_descend(r, table, level, addr) ==
    IF ~r.ret.ok THEN r
    ELSE IF contains(entry_flags(r.st.mem[table][page_table_index(addr, level)]), HUGE_PAGE)
         THEN [st |-> r.st, ret |-> Err("ParentEntryHugePage")]
         ELSE create_walk(r.st,
                          table_at(entry_addr(r.st.mem[table][page_table_index(addr, level)])),
                          level - 1, addr)

create_page_table_entry(st, page) ==
    create_walk(st, Pml4Frame, 4, page_start_address(page))

\* Mutant: the leaf is written before the already-mapped check.
map_to_leaf_writes_before_check(r, frame, flags) ==
    IF ~r.ret.ok THEN r
    ELSE [st |-> [r.st EXCEPT !.mem[r.ret.val.table][r.ret.val.index] =
                     set_addr(frame_start_address(frame), union(flags, PRESENT))],
          ret |-> IF ~is_unused(r.st.mem[r.ret.val.table][r.ret.val.index])
                  THEN Err("PageAlreadyMapped") ELSE Ok(<<>>)]

\* map_to after the walk: r is the result of create_page_table_entry(page).
map_to_leaf(r, frame, flags) ==
    IF ~r.ret.ok THEN r
    ELSE IF ~is_unused(r.st.mem[r.ret.val.table][r.ret.val.index])
         THEN [st |-> r.st, ret |-> Err("PageAlreadyMapped")]
         ELSE [st |-> [r.st EXCEPT !.mem[r.ret.val.table][r.ret.val.index] =
                          set_addr(frame_start_address(frame), union(flags, PRESENT))],
               ret |-> Ok(<<>>)]

map_to(st, page, frame, flags) ==
    map_to_leaf(create_page_table_entry(st, page), frame, flags)

\* Mutant: the frame is not given back when map_to fails.
map_match_keeps_frame(r, frame) ==
    IF r.ret.ok THEN [st |-> r.st, ret |-> Ok(frame)]
    ELSE [st |-> r.st, ret |-> r.ret]

\* Mutant: the frame is given back to the allocator when map_to succeeds too.
map_match_frees_always(r, frame) ==
    [st |-> [r.st EXCEPT !.self = bfa_deallocate_frame(r.st.self, frame)],
     ret |-> IF r.ret.ok THEN Ok(frame) ELSE r.ret]

\* The match of map on the result r of map_to(page, frame, flags).
map_match(r, frame) ==
    IF r.ret.ok THEN [st |-> r.st, ret |-> Ok(frame)]
    ELSE [st |-> [r.st EXCEPT !.self = bfa_deallocate_frame(r.st.self, frame)],
          ret |-> r.ret]

\* map after its first line: a is the result of allocator.allocate_frame().
map_allocated(st, page, flags, a) ==
    IF ~a.ret.ok THEN [st |-> st, ret |-> Err("FrameAllocationFailed")]
    ELSE map_match(map_to([st EXCEPT !.self = a.self], page, a.ret.val, flags), a.ret.val)

map(st, page, flags) == map_allocated(st, page, flags, bfa_allocate_frame(st.self))

\* Mutant: the frame is read from the entry after the entry was cleared.
unmap_leaf_reads_cleared_entry(st, page, r) ==
    IF ~r.ok THEN [st |-> st, ret |-> r]
    ELSE IF is_unused(st.mem[r.val.table][r.val.index])
         THEN [st |-> st, ret |-> Err("PageAlreadyMapped")]
         ELSE [st |-> [st EXCEPT !.mem[r.val.table][r.val.index] = set_unused,
                                 !.flushed = @ \cup {page_start_address(page)}],
               ret |-> Ok(entry_frame(set_unused))]

\* Mutant: unmap gives the frame back to the allocator.
unmap_leaf_frees_frame(st, page, r) ==
    IF ~r.ok THEN [st |-> st, ret |-> r]
    ELSE IF is_unused(st.mem[r.val.table][r.val.index])
         THEN [st |-> st, ret |-> Err("PageAlreadyMapped")]
         ELSE [st |-> [st EXCEPT !.mem[r.val.table][r.val.index] = set_unused,
                                 !.self = bfa_deallocate_frame(
                                              @, entry_frame(st.mem[r.val.table][r.val.index])),
                                 !.flushed = @ \cup {page_start_address(page)}],
               ret |-> Ok(entry_frame(st.mem[r.val.table][r.val.index]))]

\* Mutant: unmap clears the whole level-1 table of the page.
unmap_leaf_clears_table(st, page, r) ==
    IF ~r.ok THEN [st |-> st, ret |-> r]
    ELSE IF is_unused(st.mem[r.val.table][r.val.index])
         THEN [st |-> st, ret |-> Err("PageAlreadyMapped")]
         ELSE [st |-> [st EXCEPT !.mem[r.val.table] = ZeroTable,
                                 !.flushed = @ \cup {page_start_address(page)}],
               ret |-> Ok(entry_frame(st.mem[r.val.table][r.val.index]))]

\* unmap after the walk: r is the result of page_table_entry(page).
unmap_leaf(st, page, r) ==
    IF ~r.ok THEN [st |-> st, ret |-> r]
    ELSE IF is_unused(st.mem[r.val.table][r.val.index])
         THEN [st |-> st, ret |-> Err("PageAlreadyMapped")]
         ELSE [st |-> [st EXCEPT !.mem[r.val.table][r.val.index] = set_unused,
                                 !.flushed = @ \cup {page_start_address(page)}],
               ret |-> Ok(entry_frame(st.mem[r.val.table][r.val.index]))]

unmap(st, page) == unmap_leaf(st, page, page_table_entry(st.mem, page))

\* Mutant: the page offset is not added to the frame address.
translate_leaf_without_offset(m, offset, r) ==
    IF r.ok
    THEN IF is_unused(m[r.val.table][r.val.index]) THEN None
         ELSE Some(entry_addr(m[r.val.table][r.val.index]))
    ELSE None

\* translate after the walk: r is the result of page_table_entry_readonly(page).
translate_leaf(m, offset, r) ==
    IF r.ok
    THEN IF is_unused(m[r.val.table][r.val.index]) THEN None
         ELSE Some(phys_add(entry_addr(m[r.val.table][r.val.index]), offset))
    ELSE None

translate(m, addr) ==
    translate_leaf(m, page_offset(addr),
                   page_table_entry_readonly(m, page_containing_address(addr)))

\* Mutant: the new flags are added to the entry instead of replacing its flags.
update_flags_leaf_adds_flags(st, page, flags, r) ==
    IF ~r.ok THEN [st |-> st, ret |-> r]
    ELSE IF is_unused(st.mem[r.val.table][r.val.index])
         THEN [st |-> st, ret |-> Err("PageAlreadyMapped")]
         ELSE [st |-> [st EXCEPT !.mem[r.val.table][r.val.index] =
                          Or64(@, union(flags, PRESENT)),
                                 !.flushed = @ \cup {page_start_address(page)}],
               ret |-> Ok(<<>>)]

\* update_flags after the walk: r is the result of page_table_entry(page).
update_flags_leaf(st, page, flags, r) ==
    IF ~r.ok THEN [st |-> st, ret |-> r]
    ELSE IF is_unused(st.mem[r.val.table][r.val.index])
         THEN [st |-> st, ret |-> Err("PageAlreadyMapped")]
         ELSE [st |-> [st EXCEPT !.mem[r.val.table][r.val.index] =
                          set_flags(@, union(flags, PRESENT)),
                                 !.flushed = @ \cup {page_start_address(page)}],
               ret |-> Ok(<<>>)]

update_flags(st, page, flags) ==
    update_flags_leaf(st, page, flags, page_table_entry(st.mem, page))

\* ------------------------------------------------ the mapper's state machine

\* Frames of RAM the allocator manages in MapperSpec.
MapperFrames == 6

\* The tables the mapper is constructed over: the PML4 in frame 0, whose entry
\* 0 points to the table in frame 1, whose entry 0 points to the table in frame
\* 2, whose entry 0 is a 2 MiB huge page. The three frames are kernel memory.
BootTables ==
    [f \in 0 .. 2 |->
        [i \in Indices |->
            IF i # 0 THEN entry_new
            ELSE IF f = 2 THEN set_addr(U64(0, 0, 0), union(union(PRESENT, WRITABLE), HUGE_PAGE))
            ELSE set_addr(U64(0, f + 1, 0), union(PRESENT, WRITABLE))]]

\* The memory map and kernel range the allocator was initialised with.
MapperBoot ==
    BootArgs(Some(<<[base_addr |-> 0, length |-> MapperFrames * PAGE_SIZE,
                     mem_type |-> MemAvailable]>>),
             0, 3 * PAGE_SIZE)

\* The pages offered to the mapper: one below the huge entry, two sharing a
\* level-1 table that does not exist yet, one below an empty PML4 entry.
Pages ==
    {VirtAddr(0, 0, 0, 0, 0, 0), VirtAddr(0, 0, 0, 1, 0, 0),
     VirtAddr(0, 0, 0, 1, 1, 0), VirtAddr(0, 1, 0, 0, 0, 0)}

\* The frame offered to map_to: device memory above the RAM the allocator manages.
MapToFrames == {U64(0, 512, 0)}

\* The flag sets offered to map_to, map and update_flags.
FlagSets == {U64(0, 0, 0), union(WRITABLE, NO_EXECUTE)}

\* The mapper with its allocator, before a call.
St == MapperState(mem, Self, {})

\* The record of a mapper call: name, arguments, result, addresses flushed.
MCall(op, page, frame, flags, ret, flushed) ==
    [op |-> op, page |-> page, frame |-> frame, flags |-> flags, ret |-> ret,
     flushed |-> flushed]

\* The mapper state r.st after a call, with the frames the call took from the
\* allocator added to live and the frames it gave back removed.
SetMapper(st) ==
    /\ mem' = st.mem
    /\ SetSelf(st.self)
    /\ live' = (live \cup (FreeOf(bitmap, total_frames) \ FreeOf(st.self.bitmap, total_frames)))
               \ FreeOf(st.self.bitmap, total_frames)

MapperInit ==
    /\ SetSelfNow(init(new, MapperBoot.mmap, MapperBoot.kernel_start, MapperBoot.kernel_end))
    /\ initialized = TRUE
    /\ lastOp = MCall("new", VirtAddr(0, 0, 0, 0, 0, 0), U64(0, 0, 0), U64(0, 0, 0),
                      Ok(<<>>), {})
    /\ live = {}
    /\ origin = Broken
    /\ boot = MapperBoot
    /\ mem = BootTables
    /\ tlb = NoTlb
    /\ pc = Idle
    /\ info = NoInfo
    /\ reads = {}

\* Mapper::map_to(page, frame, flags)
MapTo ==
    \E page \in Pages, frame \in MapToFrames, flags \in FlagSets :
        \E r \in {map_to(St, page, frame, flags)} :
            /\ SetMapper(r.st)
            /\ lastOp' = MCall("map_to", page, frame, flags, r.ret, r.st.flushed)
            /\ UNCHANGED <<initialized, origin, boot, tlb, pc, info, reads>>

\* Mapper::map(page, flags)
Map ==
    \E page \in Pages, flags \in FlagSets :
        \E r \in {map(St, page, flags)} :
            /\ SetMapper(r.st)
            /\ lastOp' = MCall("map", page, U64(0, 0, 0), flags, r.ret, r.st.flushed)
            /\ UNCHANGED <<initialized, origin, boot, tlb, pc, info, reads>>

\* Mapper::unmap(page)
Unmap ==
    \E page \in Pages :
        \E r \in {unmap(St, page)} :
            /\ SetMapper(r.st)
            /\ lastOp' = MCall("unmap", page, U64(0, 0, 0), U64(0, 0, 0), r.ret, r.st.flushed)
            /\ UNCHANGED <<initialized, origin, boot, tlb, pc, info, reads>>

\* Mapper::update_flags(page, flags)
UpdateFlags ==
    \E page \in Pages, flags \in FlagSets :
        \E r \in {update_flags(St, page, flags)} :
            /\ SetMapper(r.st)
            /\ lastOp' = MCall("update_flags", page, U64(0, 0, 0), flags, r.ret, r.st.flushed)
            /\ UNCHANGED <<initialized, origin, boot, tlb, pc, info, reads>>

\* The caller of unmap frees the frame it got back, when map had allocated it.
FreeUnmapped ==
    /\ lastOp.op = "unmap"
    /\ lastOp.ret.ok
    /\ lastOp.ret.val.hi = 0
    /\ lastOp.ret.val.mid \in live
    /\ SetMapper([St EXCEPT !.self = bfa_deallocate_frame(Self, lastOp.ret.val)])
    /\ lastOp' = MCall("free_frame", lastOp.page, lastOp.ret.val, U64(0, 0, 0), Ok(<<>>), {})
    /\ UNCHANGED <<initialized, origin, boot, tlb, pc, info, reads>>

MapperNext ==
    \/ MapTo
    \/ Map
    \/ Unmap
    \/ UpdateFlags
    \/ FreeUnmapped

MapperSpec == MapperInit /\ [][MapperNext]_vars

\* ------------------------------------------ vocabulary of the mapper claims

\* The page offsets the claims look at: both ends of a page and one inside.
Offsets == {0, 1, PAGE_SIZE - 1}

\* The addresses of page at those offsets.
AddrsOf(page) == {[page EXCEPT !.off = o] : o \in Offsets}

\* The step is a call of op on page, with any result / returning Ok / Err.
MCalled(op, page) == lastOp'.op = op /\ lastOp'.page = page
MOk(op, page) == MCalled(op, page) /\ lastOp'.ret.ok
MFailed(op, page) == MCalled(op, page) /\ ~lastOp'.ret.ok

\* The leaf entry a walk result r refers to, the unused entry when the walk
\* failed; the leaf entry of page; page is mapped when that entry is in use.
LeafAt(m, r) == IF r.ok THEN m[r.val.table][r.val.index] ELSE entry_new
LeafOf(m, page) == LeafAt(m, page_table_entry(m, page))
Mapped(m, page) == ~is_unused(LeafOf(m, page))

\* translate at every offset of page, as a function of the offset.
TranslateFrom(m, r) == [o \in Offsets |-> translate_leaf(m, o, r)]
TranslatePage(m, page) ==
    TranslateFrom(m, page_table_entry_readonly(m, page_containing_address(page)))

\* Some(frame.start + o) at every offset o.
FrameAt(frame) == [o \in Offsets |-> Some(phys_add(frame_start_address(frame), o))]

\* None at every offset.
NoneAt == [o \in Offsets |-> None]

\* C14: if map_to(p, f, F) returns Ok, then translate(p.start + o) is
\* Some(f.start + o) for every offset o, and every later call other than a
\* successful unmap(p) leaves translate(p.start + o) as it was; f is below 2^52.
C14_MapTranslateLaw ==
    [][\A page \in Pages :
           /\ MOk("map_to", page) => TranslatePage(mem', page) = FrameAt(lastOp'.frame)
           /\ MOk("map", page) => TranslatePage(mem', page) = FrameAt(lastOp'.ret.val)
           /\ \A before \in {TranslatePage(mem, page)} :
                  (before # NoneAt /\ ~MOk("unmap", page)) =>
                      /\ \A o \in Offsets : before[o].some
                      /\ TranslatePage(mem', page) = before]_vars

\* A state right after map_to succeeded with WRITABLE | NO_EXECUTE on one of
\* the pages sharing a level-1 table, while the other is mapped to a RAM frame.
C14_Witness ==
    /\ lastOp.op = "map_to"
    /\ lastOp.ret.ok
    /\ lastOp.page = VirtAddr(0, 0, 0, 1, 1, 0)
    /\ lastOp.flags = union(WRITABLE, NO_EXECUTE)
    /\ translate(mem, [lastOp.page EXCEPT !.off = PAGE_SIZE - 1])
           = Some(U64(0, 512, PAGE_SIZE - 1))
    /\ \E q \in Pages : q # lastOp.page /\ Mapped(mem, q) /\ translate(mem, q).val.mid \in live

\* C15: unmap(p) of a page mapped by a successful map_to(p, f, F) returns
\* Ok(f) and sets p's leaf entry to zero; afterwards translate(a) is None for
\* every address a in p, and a second unmap(p) fails.
C15_UnmapLaw ==
    [][\A page \in Pages :
           /\ (MCalled("unmap", page) /\ Mapped(mem, page)) =>
                  /\ lastOp'.ret.ok
                  /\ lastOp'.ret.val = entry_frame(LeafOf(mem, page))
                  /\ TranslatePage(mem, page) = FrameAt(lastOp'.ret.val)
                  /\ page_table_entry(mem', page) = page_table_entry(mem, page)
                  /\ LeafOf(mem', page) = U64(0, 0, 0)
                  /\ TranslatePage(mem', page) = NoneAt
           /\ (/\ MCalled("unmap", page)
               /\ lastOp.op = "map_to" /\ lastOp.page = page /\ lastOp.ret.ok)
                  => lastOp'.ret.ok /\ lastOp'.ret.val = lastOp.frame
           /\ (/\ MCalled("unmap", page)
               /\ lastOp.op = "unmap" /\ lastOp.page = page /\ lastOp.ret.ok)
                  => ~lastOp'.ret.ok]_vars

\* A state right after unmap returned the device frame of a page mapped with
\* map_to, while the page sharing its level-1 table is still mapped.
C15_Witness ==
    /\ lastOp.op = "unmap"
    /\ lastOp.ret.ok
    /\ lastOp.ret.val = U64(0, 512, 0)
    /\ lastOp.page = VirtAddr(0, 0, 0, 1, 0, 0)
    /\ ~Mapped(mem, lastOp.page)
    /\ Mapped(mem, VirtAddr(0, 0, 0, 1, 1, 0))

\* The frames that hold a table after the step and held none before it.
NewTables == DOMAIN mem' \ DOMAIN mem

\* entry links a table created in the step: its address with PRESENT | WRITABLE
\* | USER_ACCESSIBLE and nothing else.
LinksNewTable(entry) == entry.hi = 0 /\ entry.lo = 7 /\ entry.mid \in NewTables

C17_MapFrameAccounting ==
    [][\A page \in Pages :
           MCalled("map", page) =>
               /\ NewTables \subseteq FreeNow
               /\ \A f \in NewTables : BitAt(bitmap', f)
               /\ lastOp'.ret.ok =>
                      /\ free_count' = free_count - (1 + Cardinality(NewTables))
                      /\ lastOp'.ret.val.mid \in FreeNow \ NewTables
                      /\ FreeOf(bitmap', total_frames')
                             = FreeNow \ (NewTables \cup {lastOp'.ret.val.mid})
               /\ ~lastOp'.ret.ok =>
                      /\ free_count' = free_count - Cardinality(NewTables)
                      /\ FreeOf(bitmap', total_frames') = FreeNow \ NewTables
               /\ FreeNow = {} =>
                      /\ ~lastOp'.ret.ok
                      /\ lastOp'.ret.val = "FrameAllocationFailed"
                      /\ mem' = mem]_vars

\* A state right after map failed with FrameAllocationFailed part-way down the
\* walk: a table was installed under the page's PML4 entry and the data frame
\* is free again.
C17_Witness ==
    /\ lastOp.op = "map"
    /\ ~lastOp.ret.ok
    /\ lastOp.ret.val = "FrameAllocationFailed"
    /\ lastOp.page = VirtAddr(0, 1, 0, 0, 0, 0)
    /\ contains(entry_flags(mem[Pml4Frame][1]), PRESENT)
    /\ free_count = 1
    /\ FreeNow = {4}

\* The slot (table frame f, index i) is page's leaf slot in the tables m.
IsLeafSlot(m, page, f, i) ==
    \E r \in {page_table_entry(m, page)} : r.ok /\ r.val.table = f /\ r.val.index = i

\* C18: unmap, successful or not, leaves the allocator's bitmap and free
\* counter unchanged, frees no table frame and changes no entry other than the
\* page's leaf entry, so every entry at levels 4, 3 and 2 stays as it was, also
\* when the page was the last one mapped in its level-1 table.
C18_UnmapReturnsNoMemory ==
    [][\A page \in Pages :
           MCalled("unmap", page) =>
               /\ bitmap' = bitmap
               /\ free_count' = free_count
               /\ total_frames' = total_frames
               /\ DOMAIN mem' = DOMAIN mem
               /\ \A f \in DOMAIN mem, i \in Indices :
                      mem'[f][i] # mem[f][i] =>
                          /\ lastOp'.ret.ok
                          /\ IsLeafSlot(mem, page, f, i)
               /\ page_table_entry(mem', page) = page_table_entry(mem, page)]_vars

\* A state right after unmap returned the RAM frame of the only page mapped in
\* its level-1 table: the table is all zero, still linked and still allocated,
\* and the returned frame is still allocated.
C18_Witness ==
    /\ lastOp.op = "unmap"
    /\ lastOp.ret.ok
    /\ lastOp.page = VirtAddr(0, 0, 0, 1, 0, 0)
    /\ lastOp.ret.val.mid \in live
    /\ BitAt(bitmap, lastOp.ret.val.mid)
    /\ \E r \in {page_table_entry(mem, lastOp.page)} :
           /\ r.ok
           /\ mem[r.val.table] = ZeroTable
           /\ BitAt(bitmap, r.val.table)

\* page is not mapped in the tables m: going down from table at level, an entry
\* at level 4, 3 or 2 is not PRESENT, or the level-1 entry is unused. A huge
\* entry on the way is a different case.
RECURSIVE NotMappedFrom(_, _, _, _)
NotMappedFrom(m, table, level, page) ==
    IF level = 1 THEN m[table][page.i1] = U64(0, 0, 0)
    ELSE \E e \in {m[table][page_table_index(page, level)]} :
             \/ e.lo % 2 = 0
             \/ /\ (e.lo \div 128) % 2 = 0
                /\ NotMappedFrom(m, e.mid, level - 1, page)

NotMapped(m, page) == NotMappedFrom(m, Pml4Frame, 4, page)

\* C19: unmap(p) and update_flags(p, F) on a page that is not mapped return
\* the error kind NotMapped, which is not PageAlreadyMapped, leave the page
\* tables unchanged and invalidate nothing in the TLB.
C19_NotMappedErrorKind ==
    [][\A page \in Pages :
           (/\ lastOp'.op \in {"unmap", "update_flags"}
            /\ lastOp'.page = page
            /\ NotMapped(mem, page)) =>
               /\ ~lastOp'.ret.ok
               /\ lastOp'.ret.val = "NotMapped"
               /\ lastOp'.ret.val # "PageAlreadyMapped"
               /\ mem' = mem
               /\ lastOp'.flushed = {}]_vars

\* C20: update_flags(p, F) on a mapped page succeeds and makes the flag bits of
\* p's leaf entry (bits 0..11 and 52..63) those of F with PRESENT set, keeps
\* the entry's frame address, so that translate(a) is unchanged for every
\* address a, and changes no other entry; an unmap(p) that follows returns the
\* frame translate showed.
C20_UpdateFlagsKeepsFrame ==
    [][\A page \in Pages :
           /\ (MCalled("update_flags", page) /\ Mapped(mem, page)) =>
                  /\ lastOp'.ret.ok
                  /\ \E old \in {LeafOf(mem, page)}, leaf \in {LeafOf(mem', page)} :
                         /\ leaf.mid = old.mid
                         /\ leaf.lo = BitOr(lastOp'.flags.lo, 1)
                         /\ leaf.hi = lastOp'.flags.hi
                  /\ DOMAIN mem' = DOMAIN mem
                  /\ \A f \in DOMAIN mem, i \in Indices :
                         mem'[f][i] # mem[f][i] => IsLeafSlot(mem, page, f, i)
                  /\ \A q \in Pages : TranslatePage(mem', q) = TranslatePage(mem, q)
           /\ (/\ MCalled("unmap", page)
               /\ lastOp.op = "update_flags" /\ lastOp.page = page /\ lastOp.ret.ok) =>
                  /\ lastOp'.ret.ok
                  /\ TranslatePage(mem, page) = FrameAt(lastOp'.ret.val)]_vars

\* A state right after update_flags with no flags succeeded on a page mapped to
\* a RAM frame: its leaf entry is the frame address with PRESENT alone, while
\* the page sharing the table keeps WRITABLE | NO_EXECUTE.
C20_Witness ==
    /\ lastOp.op = "update_flags"
    /\ lastOp.ret.ok
    /\ lastOp.flags = U64(0, 0, 0)
    /\ LeafOf(mem, lastOp.page).mid \in live
    /\ LeafOf(mem, lastOp.page).lo = 1
    /\ \E q \in Pages :
           /\ q # lastOp.page
           /\ LeafOf(mem, q).hi = 2048
           /\ LeafOf(mem, q).lo = 3

\* ------------------------------------- the mapper step by step, with the MMU

\* Mutant: invlpg leaves the TLB as it is.
flush_page_keeps_entry(t, addr) == t

\* flush_page(addr): invlpg drops the TLB entry of the page that holds addr.
flush_page(t, addr) ==
    [p \in DOMAIN t |-> IF p = page_containing_address(addr) THEN None ELSE t[p]]

\* What a frame holds before a table was written into it: an entry that is
\* neither zero nor anything the mapper writes, here with every flag bit set.
Stale == U64(0, 0, 4095)
StaleTable == [i \in Indices |-> Stale]

\* The pages the mapper is called with here: one that needs a level-1 table,
\* one below an empty PML4 entry that needs three tables.
MmuPages == {VirtAddr(0, 0, 0, 1, 0, 0), VirtAddr(0, 1, 0, 0, 0, 0)}

\* A call in progress: at is the position in its code, table and level the
\* loop variables of the walk, new_table the frame just allocated for a table, ret the
\* value the call is about to return.
Running(op, at, page, frame, flags, table, level, new_table, ret) ==
    [op |-> op, at |-> at, page |-> page, frame |-> frame, flags |-> flags,
     table |-> table, level |-> level, new_table |-> new_table, ret |-> ret]

\* The call in progress returns ret.
Return(ret) ==
    /\ pc' = Idle
    /\ lastOp' = MCall(pc.op, pc.page, pc.frame, pc.flags, ret, {})

\* The call op(page, frame, flags) ends in the step that starts it.
ReturnAtOnce(op, page, frame, flags, ret) ==
    /\ pc' = Idle
    /\ lastOp' = MCall(op, page, frame, flags, ret, {})

\* The index the walk in progress looks at in its current table.
PcIndex == page_table_index(page_start_address(pc.page), pc.level)

\* All of RAM: the boot tables, and stale contents everywhere else.
MmuInit ==
    /\ SetSelfNow(init(new, MapperBoot.mmap, MapperBoot.kernel_start, MapperBoot.kernel_end))
    /\ initialized = TRUE
    /\ lastOp = MCall("new", VirtAddr(0, 0, 0, 0, 0, 0), U64(0, 0, 0), U64(0, 0, 0),
                      Ok(<<>>), {})
    /\ live = {}
    /\ origin = Broken
    /\ boot = MapperBoot
    /\ mem = [f \in 0 .. (MapperFrames - 1) |->
                 IF f \in DOMAIN BootTables THEN BootTables[f] ELSE StaleTable]
    /\ tlb = [p \in MmuPages |-> None]
    /\ pc = Idle
    /\ info = NoInfo
    /\ reads = {}

\* map_to is called: flags gets PRESENT, the walk starts at the PML4.
MmuMapTo ==
    /\ pc = Idle
    /\ \E page \in MmuPages, frame \in MapToFrames, flags \in FlagSets :
        pc' = Running("map_to", "walk", page, frame, union(flags, PRESENT),
                      Pml4Frame, 4, U64(0, 0, 0), Ok(<<>>))
    /\ UNCHANGED <<alloc, initialized, lastOp, live, origin, boot, mem, tlb, info, reads>>

\* One iteration of the loop of create_page_table_entry up to its first write:
\* the entry is read; a missing table makes the walk allocate a frame; a present
\* entry is refused when it is a huge page and followed otherwise.
MmuCreateWalk ==
    /\ pc.op = "map_to"
    /\ pc.at = "walk"
    /\ \E entry \in {mem[pc.table][PcIndex]} :
        IF ~contains(entry_flags(entry), PRESENT)
        THEN \E a \in {bfa_allocate_frame(Self)} :
                IF ~a.ret.ok
                THEN /\ Return(Err("FrameAllocationFailed"))
                     /\ UNCHANGED <<alloc, live>>
                ELSE /\ SetSelf(a.self)
                     /\ live' = live \cup {table_at(frame_start_address(a.ret.val))}
                     /\ pc' = [pc EXCEPT !.at = "zero", !.new_table = a.ret.val]
                     /\ UNCHANGED lastOp
        ELSE /\ IF contains(entry_flags(entry), HUGE_PAGE)
                THEN Return(Err("ParentEntryHugePage"))
                ELSE /\ pc' = [pc EXCEPT !.table = table_at(entry_addr(entry)),
                                         !.level = pc.level - 1,
                                         !.at = IF pc.level = 2 THEN "leaf" ELSE "walk"]
                     /\ UNCHANGED lastOp
             /\ UNCHANGED <<alloc, live>>
    /\ UNCHANGED <<initialized, origin, boot, mem, tlb, info, reads>>

\* (*new_table).zero()
MmuZero ==
    /\ pc.op = "map_to"
    /\ pc.at = "zero"
    /\ mem' = zero(mem, table_at(frame_start_address(pc.new_table)))
    /\ pc' = [pc EXCEPT !.at = "link"]
    /\ UNCHANGED <<alloc, initialized, lastOp, live, origin, boot, tlb, info, reads>>

\* entry.set_addr(frame.start_address(), PRESENT | WRITABLE | USER_ACCESSIBLE);
\* the rest of the iteration reads the entry again.
MmuLink ==
    /\ pc.op = "map_to"
    /\ pc.at = "link"
    /\ mem' = [mem EXCEPT ![pc.table][PcIndex] =
                  set_addr(frame_start_address(pc.new_table),
                           union(union(PRESENT, WRITABLE), USER_ACCESSIBLE))]
    /\ pc' = [pc EXCEPT !.at = "walk"]
    /\ UNCHANGED <<alloc, initialized, lastOp, live, origin, boot, tlb, info, reads>>

\* The end of map_to: the leaf is written when it is unused.
MmuLeaf ==
    /\ pc.op = "map_to"
    /\ pc.at = "leaf"
    /\ IF ~is_unused(mem[pc.table][PcIndex])
       THEN Return(Err("PageAlreadyMapped")) /\ UNCHANGED mem
       ELSE /\ mem' = [mem EXCEPT ![pc.table][PcIndex] =
                          set_addr(frame_start_address(pc.frame), pc.flags)]
            /\ Return(Ok(<<>>))
    /\ UNCHANGED <<alloc, initialized, live, origin, boot, tlb, info, reads>>

\* unmap up to and including pt_entry.set_unused(); the call returns at once
\* when it fails, and is left before flush_page otherwise.
MmuUnmap ==
    /\ pc = Idle
    /\ \E page \in MmuPages :
        \E r \in {unmap(MapperState(mem, Self, {}), page)} :
            /\ mem' = r.st.mem
            /\ IF r.ret.ok
               THEN /\ pc' = Running("unmap", "flush", page, U64(0, 0, 0), U64(0, 0, 0),
                                     Pml4Frame, 4, U64(0, 0, 0), r.ret)
                    /\ UNCHANGED lastOp
               ELSE ReturnAtOnce("unmap", page, U64(0, 0, 0), U64(0, 0, 0), r.ret)
    /\ UNCHANGED <<alloc, initialized, live, origin, boot, tlb, info, reads>>

\* update_flags up to and including pt_entry.set_flags(flags).
MmuUpdateFlags ==
    /\ pc = Idle
    /\ \E page \in MmuPages, flags \in FlagSets :
        \E r \in {update_flags(MapperState(mem, Self, {}), page, flags)} :
            /\ mem' = r.st.mem
            /\ IF r.ret.ok
               THEN /\ pc' = Running("update_flags", "flush", page, U64(0, 0, 0), flags,
                                     Pml4Frame, 4, U64(0, 0, 0), r.ret)
                    /\ UNCHANGED lastOp
               ELSE ReturnAtOnce("update_flags", page, U64(0, 0, 0), flags, r.ret)
    /\ UNCHANGED <<alloc, initialized, live, origin, boot, tlb, info, reads>>

\* flush_page(page.start_address()), then the call returns.
MmuFlush ==
    /\ pc.op \in {"unmap", "update_flags"}
    /\ pc.at = "flush"
    /\ tlb' = flush_page(tlb, page_start_address(pc.page))
    /\ Return(pc.ret)
    /\ UNCHANGED <<alloc, initialized, live, origin, boot, mem, info, reads>>

\* The processor walks the tables for page and caches the PRESENT leaf it finds.
TlbFill ==
    /\ \E page \in MmuPages :
        \E leaf \in {LeafOf(mem, page)} :
            /\ contains(entry_flags(leaf), PRESENT)
            /\ tlb[page] # Some(leaf)
            /\ tlb' = [tlb EXCEPT ![page] = Some(leaf)]
    /\ UNCHANGED <<alloc, initialized, lastOp, live, origin, boot, mem, pc, info, reads>>

\* The processor drops a cached translation on its own.
TlbEvict ==
    /\ \E page \in MmuPages :
        /\ tlb[page] # None
        /\ tlb' = [tlb EXCEPT ![page] = None]
    /\ UNCHANGED <<alloc, initialized, lastOp, live, origin, boot, mem, pc, info, reads>>

MmuNext ==
    \/ MmuMapTo
    \/ MmuCreateWalk
    \/ MmuZero
    \/ MmuLink
    \/ MmuLeaf
    \/ MmuUnmap
    \/ MmuUpdateFlags
    \/ MmuFlush
    \/ TlbFill
    \/ TlbEvict

MmuSpec == MmuInit /\ [][MmuNext]_vars

\* ------------------------------------------ claims on the stepwise mapper

\* Between calls, every translation the TLB holds is the page's leaf entry.
TlbCoherent ==
    pc = Idle => \A p \in DOMAIN tlb : tlb[p] # None => tlb[p] = Some(LeafOf(mem, p))

\* A step that clears or rewrites the PRESENT leaf of a page is a step of unmap or
\* update_flags on that page which leaves the call before its flush_page; the
\* step that ends such a call has invalidated that page and no other; a step of
\* map_to that changes a leaf finds it zero.
TlbStep ==
    /\ \A p \in DOMAIN tlb :
        \A leaf \in {LeafOf(mem, p)} :
            (contains(entry_flags(leaf), PRESENT) /\ LeafOf(mem', p) # leaf)
                => /\ pc = Idle
                   /\ pc'.op \in {"unmap", "update_flags"}
                   /\ pc'.at = "flush"
                   /\ pc'.page = p
    /\ (pc.op \in {"unmap", "update_flags"} /\ pc' = Idle)
            => /\ tlb'[pc.page] = None
               /\ \A p \in DOMAIN tlb \ {pc.page} : tlb'[p] = tlb[p]
               /\ mem' = mem
    /\ (pc.op = "map_to" /\ pc.at = "leaf" /\ mem' # mem)
            => is_unused(LeafOf(mem, pc.page))

\* C21: with a TLB that may cache any PRESENT leaf at any moment, unmap and
\* update_flags write the entry first and then invalidate exactly that page
\* before they return, map_to only writes a leaf that was zero, and whenever no
\* mapper call is in progress every cached translation equals the page's
\* current leaf entry.
C21_TlbDiscipline == []TlbCoherent /\ [][TlbStep]_vars

\* update_flags has rewritten a leaf the TLB still holds the old value of, and
\* has not flushed yet.
C21_Witness ==
    /\ pc.op = "update_flags"
    /\ pc.at = "flush"
    /\ tlb[pc.page] # None
    /\ tlb[pc.page] # Some(LeafOf(mem, pc.page))

\* The tables the processor can reach from table at level: the table itself and
\* those below its PRESENT entries that are not huge pages.
RECURSIVE TablesBelow(_, _, _)
TablesBelow(m, table, level) ==
    IF level = 1 THEN {table}
    ELSE {table} \cup
         UNION {TablesBelow(m, table_at(entry_addr(m[table][i])), level - 1) :
                   i \in {j \in Indices :
                             /\ contains(entry_flags(m[table][j]), PRESENT)
                             /\ ~contains(entry_flags(m[table][j]), HUGE_PAGE)}}

\* No table the processor can reach holds a stale entry.
NoStaleChild ==
    \A t \in TablesBelow(mem, Pml4Frame, 4) : \A i \in Indices : mem[t][i] # Stale

\* A step that makes an entry of a reachable table at level 4, 3 or 2 PRESENT
\* writes the address of the new frame with PRESENT | WRITABLE | USER_ACCESSIBLE,
\* and the table in that frame is all zero before and after the step.
LinkStep ==
    (pc.op = "map_to" /\ pc.at # "leaf" /\ mem' # mem /\ pc'.at # "link")
        => /\ ~contains(entry_flags(mem[pc.table][PcIndex]), PRESENT)
           /\ mem'[pc.table][PcIndex] =
                  U64(0, table_at(frame_start_address(pc.new_table)), 7)
           /\ mem[table_at(frame_start_address(pc.new_table))] = ZeroTable
           /\ mem'[table_at(frame_start_address(pc.new_table))] = ZeroTable

\* C22: in the create-mode walk a newly allocated table is zeroed before the
\* parent entry is written to point to it with PRESENT | WRITABLE |
\* USER_ACCESSIBLE, so a reader that sees the parent's PRESENT bit at any step
\* never sees a stale entry in the child table.
C22_ZeroBeforeLink == []NoStaleChild /\ [][LinkStep]_vars

\* A table at level 3 or below has been zeroed and is not linked yet: the frame
\* held stale entries when it was allocated.
C22_Witness ==
    /\ pc.op = "map_to"
    /\ pc.at = "link"
    /\ pc.level < 4
    /\ mem[table_at(frame_start_address(pc.new_table))] = ZeroTable
    /\ ~contains(entry_flags(mem[pc.table][PcIndex]), PRESENT)

\* -------------------------------------------- the mapper below huge pages

\* The tables of frames 0..2 with one huge-page entry, at the given level, on the
\* path of index 0: the entries above it link the next frame, the frames below
\* it hold no table. HugeTablesAt(2) is BootTables.
HugeTablesAt(level) ==
    [f \in 0 .. 2 |->
        [i \in Indices |->
            IF i # 0 \/ f > 4 - level THEN entry_new
            ELSE IF f = 4 - level
                 THEN set_addr(U64(0, 0, 0), union(union(PRESENT, WRITABLE), HUGE_PAGE))
                 ELSE set_addr(U64(0, f + 1, 0), union(PRESENT, WRITABLE))]]

\* The mapper constructed over tables with a huge page at level 4, 3 or 2.
HugeInit ==
    /\ SetSelfNow(init(new, MapperBoot.mmap, MapperBoot.kernel_start, MapperBoot.kernel_end))
    /\ initialized = TRUE
    /\ lastOp = MCall("new", VirtAddr(0, 0, 0, 0, 0, 0), U64(0, 0, 0), U64(0, 0, 0),
                      Ok(<<>>), {})
    /\ live = {}
    /\ origin = Broken
    /\ boot = MapperBoot
    /\ \E level \in 2 .. 4 : mem = HugeTablesAt(level)
    /\ tlb = NoTlb
    /\ pc = Idle
    /\ info = NoInfo
    /\ reads = {}

HugeSpec == HugeInit /\ [][MapperNext]_vars

\* The walk for page from table at level meets a PRESENT entry with HUGE_PAGE
\* at this level or at a lower one down to 2.
RECURSIVE MeetsHugeFrom(_, _, _, _)
MeetsHugeFrom(m, table, level, page) ==
    /\ level >= 2
    /\ \E entry \in {m[table][page_table_index(page, level)]} :
        /\ entry.lo % 2 = 1
        /\ \/ (entry.lo \div 128) % 2 = 1
           \/ MeetsHugeFrom(m, entry.mid, level - 1, page)

MeetsHuge(m, page) == MeetsHugeFrom(m, Pml4Frame, 4, page)

\* C23 as stated: if the walk for page p meets an entry at level 4, 3 or 2
\* with PRESENT and HUGE_PAGE set, then map_to, map, unmap and update_flags of
\* p return ParentEntryHugePage and translate returns None for p, and the huge
\* entry and everything below it (here: all of the page tables) stay as they
\* were.
C23_HugePageRefusal ==
    [][\A page \in Pages :
           MeetsHuge(mem, page) =>
               /\ TranslatePage(mem, page) = NoneAt
               /\ (/\ lastOp'.op \in {"map_to", "map", "unmap", "update_flags"}
                   /\ lastOp'.page = page)
                      => /\ ~lastOp'.ret.ok
                         /\ lastOp'.ret.val = "ParentEntryHugePage"
                         /\ mem' = mem]_vars

\* C23 amended: as above for map_to, unmap, update_flags and translate; map
\* returns ParentEntryHugePage when the allocator has a free frame for it (and
\* gives that frame back), and FrameAllocationFailed, without walking, when no
\* frame is free; in every case the page tables stay as they were.
C23_HugePageRefusalGivenFrame ==
    [][\A page \in Pages :
           MeetsHuge(mem, page) =>
               /\ TranslatePage(mem, page) = NoneAt
               /\ (/\ lastOp'.op \in {"map_to", "map", "unmap", "update_flags"}
                   /\ lastOp'.page = page)
                      => /\ ~lastOp'.ret.ok
                         /\ lastOp'.ret.val =
                                IF lastOp'.op = "map" /\ FreeNow = {}
                                THEN "FrameAllocationFailed" ELSE "ParentEntryHugePage"
                         /\ mem' = mem
                         /\ FreeOf(bitmap', total_frames') = FreeNow]_vars

\* map was refused below a huge entry of the PML4 and gave its frame back.
C23_Witness ==
    /\ lastOp.op = "map"
    /\ ~lastOp.ret.ok
    /\ lastOp.ret.val = "ParentEntryHugePage"
    /\ MeetsHuge(mem, lastOp.page)
    /\ (mem[Pml4Frame][0].lo \div 128) % 2 = 1
    /\ FreeNow # {}
    /\ live = {}

\* ------------------------------------------ the mapper over an empty PML4

\* The allocator for the empty address space: one frame more than MapperFrames,
\* the kernel image is frame 0 (it holds the PML4), the bitmap is in frame 1.
EmptyBoot ==
    BootArgs(Some(<<[base_addr |-> 0, length |-> (MapperFrames + 1) * PAGE_SIZE,
                     mem_type |-> MemAvailable]>>),
             0, PAGE_SIZE)

\* The mapper constructed over a PML4 with no entry in use.
EmptyInit ==
    /\ SetSelfNow(init(new, EmptyBoot.mmap, EmptyBoot.kernel_start, EmptyBoot.kernel_end))
    /\ initialized = TRUE
    /\ lastOp = MCall("new", VirtAddr(0, 0, 0, 0, 0, 0), U64(0, 0, 0), U64(0, 0, 0),
                      Ok(<<>>), {})
    /\ live = {}
    /\ origin = Broken
    /\ boot = EmptyBoot
    /\ mem = [f \in {Pml4Frame} |-> ZeroTable]
    /\ tlb = NoTlb
    /\ pc = Idle
    /\ info = NoInfo
    /\ reads = {}

\* map, unmap, update_flags, and free_frame of a frame unmap has just returned.
EmptyNext ==
    \/ Map
    \/ Unmap
    \/ UpdateFlags
    \/ FreeUnmapped

EmptySpec == EmptyInit /\ [][EmptyNext]_vars

\* The PRESENT entries reachable from table at level, each with its place.
RECURSIVE Slots(_, _, _)
Slots(m, table, level) ==
    UNION {{[table |-> table, index |-> i, level |-> level, entry |-> m[table][i]]}
           \cup (IF level > 1 /\ (m[table][i].lo \div 128) % 2 = 0
                 THEN Slots(m, m[table][i].mid, level - 1) ELSE {}) :
              i \in {j \in Indices : m[table][j].lo % 2 = 1}}

\* The frames those entries refer to.
Referenced(S) == {s.entry.mid : s \in S}

\* C24: starting from an empty PML4 and an initialised allocator, after any
\* sequence of map, unmap, update_flags, failed maps and free_frame of frames
\* returned by a preceding unmap, no frame whose bitmap bit is 0 is referenced
\* by a PRESENT entry reachable from the PML4, as a table or as a leaf frame.
C24_NoFreeFrameReferenced ==
    Referenced(Slots(mem, Pml4Frame, 4)) \cap FreeNow = {}

\* A frame was unmapped and freed while another page stays mapped through the
\* same tables, and a frame is free again.
C24_Witness ==
    /\ lastOp.op = "free_frame"
    /\ lastOp.frame.mid \in FreeNow
    /\ \E page \in Pages : page # lastOp.page /\ Mapped(mem, page)
    /\ Cardinality(DOMAIN mem) >= 4

\* C25: starting from an empty PML4, after any sequence of map, unmap and
\* update_flags using the bitmap allocator, every PRESENT entry at levels 4, 3
\* and 2 points to a 4 KiB-aligned table frame obtained from the allocator, each
\* such frame is referenced by exactly one parent entry, and no frame is both
\* an intermediate table and the leaf frame of a mapping created by map.
C25_TreeShape ==
    \A S \in {Slots(mem, Pml4Frame, 4)} :
        \A T \in {{s \in S : s.level >= 2}} :
            /\ \A s \in T :
                /\ s.entry.hi = 0
                /\ s.entry.lo = 7
                /\ s.entry.mid \in live
                /\ s.entry.mid \in DOMAIN mem \ {Pml4Frame}
            /\ \A s \in T, t \in T : s.entry.mid = t.entry.mid => s = t
            /\ Referenced(T) \cap Referenced(S \ T) = {}

\* Two pages are mapped through the same three tables, each to its own frame.
C25_Witness ==
    /\ \E S \in {Slots(mem, Pml4Frame, 4)} :
        /\ Cardinality({s \in S : s.level >= 2}) = 3
        /\ Cardinality({s \in S : s.level = 1}) = 2
        /\ Cardinality(Referenced(S)) = 5
    /\ lastOp.op = "map"
    /\ lastOp.ret.ok

\* ------------------------------------------------- page-table entries alone

\* The ten flags PageTableFlags defines, and every set built from them.
TenFlags ==
    {PRESENT, WRITABLE, USER_ACCESSIBLE, WRITE_THROUGH, NO_CACHE, ACCESSED, DIRTY,
     HUGE_PAGE, GLOBAL, NO_EXECUTE}

RECURSIVE UnionOf(_)
UnionOf(S) ==
    IF S = {} THEN empty
    ELSE LET f == CHOOSE g \in S : TRUE IN union(f, UnionOf(S \ {f}))

EntryFlagSets == {UnionOf(S) : S \in SUBSET TenFlags}

\* 4 KiB-aligned physical addresses: 0, 0x1000, 0x2000 and the highest one whose
\* frame number fits the integers of the model.
EntryAddrs == {U64(0, 0, 0), U64(0, 1, 0), U64(0, 2, 0), U64(0, 2147483647, 0)}

\* An entry under test: PageTableEntry::new(), then set_addr(addr, flags), then
\* set_unused().
Testing(at, entry, addr, flags) ==
    [op |-> "entry", at |-> at, entry |-> entry, addr |-> addr, flags |-> flags]

EntryInit ==
    /\ SetSelfNow(new)
    /\ initialized = FALSE
    /\ lastOp = Call("new", 0, 0, None)
    /\ live = {}
    /\ origin = Broken
    /\ boot = BootArgs(None, 0, 0)
    /\ mem = NoTables
    /\ tlb = NoTlb
    /\ \E addr \in EntryAddrs, flags \in EntryFlagSets :
        pc = Testing("new", entry_new, addr, flags)
    /\ info = NoInfo
    /\ reads = {}

\* entry.set_addr(addr, flags)
EntrySetAddr ==
    /\ pc.op = "entry"
    /\ pc.at = "new"
    /\ pc' = [pc EXCEPT !.at = "set_addr", !.entry = set_addr(pc.addr, pc.flags)]
    /\ UNCHANGED <<alloc, initialized, lastOp, live, origin, boot, mem, tlb, info, reads>>

\* entry.set_unused()
EntrySetUnused ==
    /\ pc.op = "entry"
    /\ pc.at = "set_addr"
    /\ pc' = [pc EXCEPT !.at = "set_unused", !.entry = set_unused]
    /\ UNCHANGED <<alloc, initialized, lastOp, live, origin, boot, mem, tlb, info, reads>>

EntryNext ==
    \/ EntrySetAddr
    \/ EntrySetUnused

EntrySpec == EntryInit /\ [][EntryNext]_vars

\* C30: for every 4 KiB-aligned address p below 2^52 and every flag set F built
\* from the ten defined flags, after set_addr(p, F) the entry has addr() = p,
\* frame().start_address() = p, flags() reporting every flag of F, NO_EXECUTE
\* included, and no other, and is_unused() false; after set_unused(),
\* is_unused() is true; for p = 0x2000 and F = PRESENT | WRITABLE the word is
\* 0x2003.
C30_EntryRoundTrip ==
    /\ (pc.op = "entry" /\ pc.at = "set_addr")
          => /\ entry_addr(pc.entry) = pc.addr
             /\ frame_start_address(entry_frame(pc.entry)) = pc.addr
             /\ \A f \in TenFlags :
                    contains(entry_flags(pc.entry), f) <=> contains(pc.flags, f)
             /\ ~is_unused(pc.entry)
             /\ (pc.addr = U64(0, 2, 0) /\ pc.flags = union(PRESENT, WRITABLE))
                    => pc.entry = U64(0, 2, 3)
    /\ (pc.op = "entry" /\ pc.at = "set_unused") => is_unused(pc.entry)

\* ------------------------------------------------ the boot information blob

MULTIBOOT2_MAGIC == 920085129

\* One 8-byte word of the blob as the two u32 it holds, a at the lower address.
W(a, b) == [a |-> a, b |-> b]

\* The info blob: the header's total_size and the words that follow the 8-byte
\* header in memory (words[k] is at byte offset 8 * k); the words may go on
\* beyond total_size.
BootInfo(magic, addr, total_size, words) ==
    [magic |-> magic, addr |-> addr, total_size |-> total_size, words |-> words]

\* The u32 at byte offset off of the blob, off a multiple of 4 from 8 on.
read_u32(b, off) ==
    IF off % 8 = 0 THEN b.words[off \div 8].a ELSE b.words[off \div 8].b

\* The u64 at byte offset off, off a multiple of 8: low half a, high half b.
read_u64(b, off) == b.words[off \div 8].a + b.words[off \div 8].b * 65536 * 65536

\* *(current as *const MemoryMapEntry): the 24 bytes at off as an entry.
entry_at(b, off) ==
    [base_addr |-> read_u64(b, off), length |-> read_u64(b, off + 8),
     mem_type |-> read_u32(b, off + 16)]

\* A read of len bytes at byte offset at.
Read(at, len) == [at |-> at, len |-> len]

\* The steps of the loops stop being taken after this many iterations of one
\* loop; every loop that ends at all ends sooner on the blobs below.
MaxSteps == 8

\* MemoryMapIter
MemoryMapIter(current, end, entry_size) ==
    [current |-> current, end |-> end, entry_size |-> entry_size]

\* One iteration of the while loop of memory_map with the tag at current, for
\* current < end: the loop breaks at an End tag, returns the iterator at a
\* MemoryMap tag and moves on to the next 8-byte boundary otherwise.
tag_step(b, current) ==
    IF read_u32(b, current) = 0
    THEN [done |-> TRUE, ret |-> None, reads |-> {Read(current, 4)}]
    ELSE IF read_u32(b, current) = 6
         THEN [done |-> TRUE,
               ret |-> Some(MemoryMapIter(current + 16, current + read_u32(b, current + 4),
                                          read_u32(b, current + 8))),
               reads |-> {Read(current, 4), Read(current + 8, 4), Read(current + 4, 4)}]
         ELSE [done |-> FALSE,
               current |-> ((current + read_u32(b, current + 4) + 7) \div 8) * 8,
               reads |-> {Read(current, 4), Read(current + 4, 4)}]

\* MemoryMapIter::next: the entry is named by the offset it is read at.
iter_next(it) ==
    IF it.current >= it.end
    THEN [it |-> it, ret |-> None, reads |-> {}]
    ELSE [it |-> [it EXCEPT !.current = it.current + it.entry_size],
          ret |-> Some(it.current),
          reads |-> {Read(it.current, 24)}]

\* A call of memory_map in progress for caller, in the caller's given pass over
\* the map: n counts the iterations of the loop so far.
Walking(caller, pass) ==
    [op |-> "memory_map", caller |-> caller, pass |-> pass, current |-> 8,
     end |-> info.total_size, n |-> 0]

\* The caller's `for entry in mmap` over the iterator it, with the offsets
\* yielded so far; tag is the offset of the tag the iterator came from.
Iterating(caller, pass, it, tag, yielded, n) ==
    [op |-> "iterate", caller |-> caller, pass |-> pass, it |-> it, tag |-> tag,
     yielded |-> yielded, n |-> n]

\* memory_map has returned and the loop over its result, if any, has ended:
\* found says whether it was Some, tag and yielded are as above.
Returned(caller, pass, found, tag, yielded) ==
    [op |-> "returned", caller |-> caller, pass |-> pass, found |-> found, tag |-> tag,
     yielded |-> yielded]

\* One iteration of the tag loop of memory_map, or its end.
WalkTags ==
    /\ pc.op = "memory_map"
    /\ pc.n < MaxSteps
    /\ IF pc.current >= pc.end
       THEN /\ pc' = Returned(pc.caller, pc.pass, FALSE, 0, << >>)
            /\ UNCHANGED reads
       ELSE \E r \in {tag_step(info, pc.current)} :
               /\ reads' = reads \cup r.reads
               /\ pc' = IF ~r.done THEN [pc EXCEPT !.current = r.current, !.n = pc.n + 1]
                        ELSE IF ~r.ret.some
                             THEN Returned(pc.caller, pc.pass, FALSE, 0, << >>)
                             ELSE Iterating(pc.caller, pc.pass, r.ret.val, pc.current,
                                            << >>, 0)
    /\ UNCHANGED <<alloc, initialized, lastOp, live, origin, boot, mem, tlb, info>>

\* One call of next() by the loop over the iterator.
NextEntry ==
    /\ pc.op = "iterate"
    /\ pc.n < MaxSteps
    /\ \E r \in {iter_next(pc.it)} :
        /\ reads' = reads \cup r.reads
        /\ pc' = IF ~r.ret.some
                 THEN Returned(pc.caller, pc.pass, TRUE, pc.tag, pc.yielded)
                 ELSE [pc EXCEPT !.it = r.it, !.yielded = Append(pc.yielded, r.ret.val),
                                 !.n = pc.n + 1]
    /\ UNCHANGED <<alloc, initialized, lastOp, live, origin, boot, mem, tlb, info>>

\* ---------------------------------------- memory_map on malformed blobs

\* A tag that is neither End nor MemoryMap with declared size s, followed by
\* the payload words that size calls for.
OtherTag(s) == <<W(1, s)>> \o [k \in 1 .. ((s + 7) \div 8 - 1) |-> W(0, 0)]

\* The End tag.
EndTag == <<W(0, 8)>>

\* One 24-byte entry.
EntryWords(base_addr, length, mem_type) ==
    <<W(base_addr, 0), W(length, 0), W(mem_type, 0)>>

\* A MemoryMap tag declaring size s and entry_size es, followed by the words in
\* entries.
MMapTag(s, es, entries) == <<W(6, s), W(es, 0)>> \o entries

\* Blobs with up to three tags: nothing or a tag of another type, declaring a
\* size of 0, of less than its header, or a real one; then nothing, an End tag,
\* or a MemoryMap tag whose declared size and entry_size may not fit the six
\* words of entries that follow; then an End tag. total_size covers no tag, the
\* first tag or all of them.
ParseBlobs ==
    {BootInfo(MULTIBOOT2_MAGIC, 65536, ts, first \o second \o EndTag) :
        ts \in {8, 16, 96},
        first \in {<< >>} \cup {OtherTag(s) : s \in {0, 4, 8, 16}},
        second \in {<< >>, EndTag}
                   \cup {MMapTag(s, es, EntryWords(0, 4096, 1) \o EntryWords(4096, 4096, 2)) :
                            s \in {8, 16, 40, 48, 64}, es \in {0, 8, 24, 32}}}

\* A blob is in memory and memory_map has not been called yet.
ParseInit ==
    /\ SetSelfNow(new)
    /\ initialized = FALSE
    /\ lastOp = Call("new", 0, 0, None)
    /\ live = {}
    /\ origin = Broken
    /\ boot = BootArgs(None, 0, 0)
    /\ mem = NoTables
    /\ tlb = NoTlb
    /\ pc = Idle
    /\ info \in ParseBlobs
    /\ reads = {}

\* boot_info.memory_map() is called and its result iterated to the end.
CallMemoryMap ==
    /\ pc = Idle
    /\ pc' = Walking("caller", "only")
    /\ reads' = reads \cup {Read(0, 4)}
    /\ UNCHANGED <<alloc, initialized, lastOp, live, origin, boot, mem, tlb, info>>

ParseNext ==
    \/ CallMemoryMap
    \/ WalkTags
    \/ NextEntry

ParseSpec == ParseInit /\ [][ParseNext]_vars

\* The tags the walk visits from offset off with fuel iterations left: the
\* offsets of the tag headers in order, up to and including the first End or
\* MemoryMap tag, as long as they start below total_size.
RECURSIVE TagChain(_, _, _)
TagChain(b, off, fuel) ==
    IF fuel = 0 \/ off >= b.total_size THEN << >>
    ELSE IF read_u32(b, off) \in {0, 6} THEN <<off>>
         ELSE <<off>> \o TagChain(b, ((off + read_u32(b, off + 4) + 7) \div 8) * 8, fuel - 1)

\* C26: memory_map() and the iterator it returns terminate for every blob: the
\* tag walk stops at the End tag or when the next tag would start at or beyond
\* total_size, also when a tag declares size 0 or less than its header, and
\* the iterator yields finitely many entries, also when entry_size is 0. Both
\* loops run while an offset is below a fixed end, so they terminate exactly
\* when every iteration that goes on to another one has moved the offset up.
C26_ParsingTerminates ==
    [][/\ (pc.op = "memory_map" /\ pc'.op = "memory_map") => pc'.current > pc.current
       /\ (pc.op = "iterate" /\ pc'.op = "iterate") => pc'.it.current > pc.it.current]_vars

\* floor((size - 16) / entry_size), none when the tag is shorter than its header.
EntryCount(size, entry_size) ==
    IF size <= 16 THEN 0 ELSE (size - 16) \div entry_size

\* C27: memory_map() returns None iff no tag of type 6 occurs before the End
\* tag within total_size; otherwise, for the first such tag with fields size
\* and entry_size, the iterator yields exactly floor((size - 16) / entry_size)
\* records in on-disk order, the i-th read at tag_start + 16 + i * entry_size,
\* and never reads bytes at or beyond tag_start + size.
C27_MemoryMapEntries ==
    pc.op = "returned" =>
        \A chain \in {TagChain(info, 8, MaxSteps)} :
            \A last \in {IF chain = << >> THEN 0 ELSE chain[Len(chain)]} :
                IF last = 0 \/ read_u32(info, last) # 6
                THEN ~pc.found
                ELSE /\ pc.found
                     /\ pc.tag = last
                     /\ \A size \in {read_u32(info, last + 4)},
                           entry_size \in {read_u32(info, last + 8)} :
                            /\ entry_size > 0 =>
                                 pc.yielded = [i \in 1 .. EntryCount(size, entry_size) |->
                                                  last + 16 + (i - 1) * entry_size]
                            /\ \A r \in reads :
                                 r.len = 24 => r.at + r.len <= last + size

\* ------------------------------------------------ init_memory step by step

\* Mutant: BootInfo::new accepts the null address.
boot_info_new_unchecked(addr) == Some(addr)

\* BootInfo::new
boot_info_new(addr) == IF addr = 0 THEN None ELSE Some(addr)

\* init_memory has returned; said is the line it printed last.
Finished(said) == [op |-> "finished", said |-> said]

\* n calls of the allocator's init have been made.
InitCalls(n) == Call("init", 0, n, None)

\* The entries a finished loop over the iterator has read, in order.
entries_of(b, yielded) == [i \in 1 .. Len(yielded) |-> entry_at(b, yielded[i])]

\* Memory that holds zeros from the end of the blob on.
Zeros == [k \in 1 .. 4 |-> W(0, 0)]

\* A blob of total_size bytes made of the words given, the 8-byte header
\* counted, with zeroed memory behind it.
Blob(magic, addr, words) ==
    BootInfo(magic, addr, 8 + 8 * Len(words), words \o Zeros)

\* A MemoryMap tag of declared size s and entry_size es that holds whole
\* 24-byte entries in its s - 16 bytes of payload: the first spans frames 0 and
\* 1, the second frames 2 and 3.
MapTags ==
    {MMapTag(16, es, << >>) : es \in {16, 24, 32}}
    \cup {MMapTag(40, es, EntryWords(0, 2 * PAGE_SIZE, t1)) :
             es \in {16, 24, 32}, t1 \in {MemAvailable, MemReserved}}
    \cup {MMapTag(64, es, EntryWords(0, 2 * PAGE_SIZE, t1)
                          \o EntryWords(2 * PAGE_SIZE, 2 * PAGE_SIZE, t2)) :
             es \in {16, 24, 32},
             t1 \in {MemAvailable, MemReserved}, t2 \in {MemAvailable, MemReserved}}

\* What the boot loader can hand over: a right or wrong magic, a null or
\* non-null address, and at the address a blob with or without a leading tag
\* of another type, with an End tag only or with a MemoryMap tag.
BootInfos ==
    {Blob(magic, addr, first \o second) :
        magic \in {MULTIBOOT2_MAGIC, 0},
        addr \in {0, 65536},
        first \in {<< >>, OtherTag(8)},
        second \in {EndTag} \cup MapTags}

\* The kernel is entered with the boot loader's magic and address.
BootInit ==
    /\ SetSelfNow(new)
    /\ initialized = FALSE
    /\ lastOp = InitCalls(0)
    /\ live = {}
    /\ origin = Broken
    /\ boot = BootArgs(None, 0, 0)
    /\ mem = NoTables
    /\ tlb = NoTlb
    /\ pc = Idle
    /\ info \in BootInfos
    /\ reads = {}

\* init_memory up to its call of print_memory_map: the magic is compared, then
\* BootInfo::new looks at the address, then memory_map reads total_size.
InitMemory ==
    /\ pc = Idle
    /\ IF info.magic # MULTIBOOT2_MAGIC
       THEN /\ pc' = Finished("Invalid multiboot magic number!")
            /\ UNCHANGED reads
       ELSE IF ~boot_info_new(info.addr).some
            THEN /\ pc' = Finished("Failed to parse multiboot info!")
                 /\ UNCHANGED reads
            ELSE /\ pc' = Walking("init_memory", "print")
                 /\ reads' = reads \cup {Read(0, 4)}
    /\ UNCHANGED <<alloc, initialized, lastOp, live, origin, boot, mem, tlb, info>>

\* print_memory_map is done and init begins with its first loop, or that loop
\* is done and, the bitmap filled, the second begins: memory_map is called
\* again.
NextPass ==
    /\ pc.op = "returned"
    /\ pc.caller = "init_memory"
    /\ pc.pass \in {"print", "highest"}
    /\ pc' = Walking("init_memory", IF pc.pass = "print" THEN "highest" ELSE "free")
    /\ reads' = reads \cup {Read(0, 4)}
    /\ UNCHANGED <<alloc, initialized, lastOp, live, origin, boot, mem, tlb, info>>

\* The second loop of init is done: init has run on the entries memory_map
\* yielded, with the kernel at [PAGE_SIZE, 2 * PAGE_SIZE), and init_memory
\* prints the statistics.
InitPhysical ==
    /\ pc.op = "returned"
    /\ pc.caller = "init_memory"
    /\ pc.pass = "free"
    /\ \E mmap \in {IF pc.found THEN Some(entries_of(info, pc.yielded)) ELSE None} :
        /\ SetSelf(init(Self, mmap, PAGE_SIZE, 2 * PAGE_SIZE))
        /\ boot' = BootArgs(mmap, PAGE_SIZE, 2 * PAGE_SIZE)
    /\ initialized' = TRUE
    /\ lastOp' = InitCalls(lastOp.count + 1)
    /\ pc' = Finished("Allocated frames")
    /\ UNCHANGED <<live, origin, mem, tlb, info, reads>>

BootNext ==
    \/ InitMemory
    \/ WalkTags
    \/ NextEntry
    \/ NextPass
    \/ InitPhysical

BootSpec == BootInit /\ [][BootNext]_vars

\* ------------------------------------------------------ claims on init_memory

\* The offset of the first MemoryMap tag the walk over blob b comes to, 0 when
\* it comes to none.
FirstMapTag(b) ==
    CHOOSE t \in {0} \cup {8 * k : k \in 1 .. Len(b.words)} :
        \A chain \in {TagChain(b, 8, MaxSteps)} :
            IF chain # << >> /\ read_u32(b, chain[Len(chain)]) = 6
            THEN t = chain[Len(chain)]
            ELSE t = 0

\* C28: a MemoryMap tag whose entry_size is less than 24 is rejected:
\* memory_map() yields no memory-region record from such a tag, and the
\* allocator's init, run on that blob, frees no frame.
C28_SmallEntrySizeRejected ==
    \A tag \in {FirstMapTag(info)} :
        (tag # 0 /\ read_u32(info, tag + 8) < 24) =>
            /\ pc.op \in {"iterate", "returned"} => pc.yielded = << >>
            /\ pc.op = "finished" => FreeNow = {}

\* What the failures of open are called: the lines init_memory prints for them.
InvalidMagic == "Invalid multiboot magic number!"
NullAddress == "Failed to parse multiboot info!"

WriteAddrs ==
    {U64(hi, mid, lo) : hi \in {0, 1, 2048}, mid \in {0, 1, 2147483647}, lo \in {0, 1, 2048}}

\* Flag sets written with an address or by set_flags.
WriteFlagSets ==
    {empty, PRESENT, union(PRESENT, WRITABLE), NO_EXECUTE,
     union(union(PRESENT, USER_ACCESSIBLE), NO_EXECUTE)}

\* An entry being written: PageTableEntry::new(), then set_addr(addr, flags),
\* which panics on its assert or stores, then set_flags(then); before is the
\* entry as it was before the last write.
Writing(at, entry, addr, flags, then, before) ==
    [op |-> "write", at |-> at, entry |-> entry, addr |-> addr, flags |-> flags,
     then |-> then, before |-> before]

\* PhysAddr::is_aligned(PAGE_SIZE): self.0 % 4096 == 0.
is_aligned_4k(addr) == addr.lo = 0

WriteInit ==
    /\ SetSelfNow(new)
    /\ initialized = FALSE
    /\ lastOp = Call("new", 0, 0, None)
    /\ live = {}
    /\ origin = Broken
    /\ boot = BootArgs(None, 0, 0)
    /\ mem = NoTables
    /\ tlb = NoTlb
    /\ \E addr \in WriteAddrs, flags \in WriteFlagSets, then \in WriteFlagSets :
        pc = Writing("new", entry_new, addr, flags, then, entry_new)
    /\ info = NoInfo
    /\ reads = {}

\* entry.set_addr(addr, flags): the assert, then the store.
WriteSetAddr ==
    /\ pc.op = "write"
    /\ pc.at = "new"
    /\ pc' = IF ~is_aligned_4k(pc.addr)
             THEN [pc EXCEPT !.at = "panicked"]
             ELSE [pc EXCEPT !.at = "set_addr", !.entry = set_addr(pc.addr, pc.flags),
                             !.before = pc.entry]
    /\ UNCHANGED <<alloc, initialized, lastOp, live, origin, boot, mem, tlb, info, reads>>

\* entry.set_flags(then)
WriteSetFlags ==
    /\ pc.op = "write"
    /\ pc.at = "set_addr"
    /\ pc' = [pc EXCEPT !.at = "set_flags", !.entry = set_flags(pc.entry, pc.then),
                        !.before = pc.entry]
    /\ UNCHANGED <<alloc, initialized, lastOp, live, origin, boot, mem, tlb, info, reads>>

WriteNext ==
    \/ WriteSetAddr
    \/ WriteSetFlags

WriteSpec == WriteInit /\ [][WriteNext]_vars

\* C31: set_addr(p, F) rejects every p that is not 4 KiB-aligned; for every p
\* it accepts, the address it stores lies in bits 12..51 only, so the flag bits
\* of the entry (bits 0..11 and 52..63, NO_EXECUTE among them) are those of F
\* whatever p is; set_flags(F) leaves bits 12..51 as they were.
C31_EntryWriteInvariant ==
    pc.op = "write" =>
        /\ ~is_aligned_4k(pc.addr) => pc.at \in {"new", "panicked"}
        /\ pc.at = "set_addr" =>
              /\ pc.entry.mid = pc.addr.mid
              /\ pc.entry.lo = pc.flags.lo
              /\ pc.entry.hi = pc.flags.hi
        /\ pc.at = "set_flags" => pc.entry.mid = pc.before.mid

\* ------------------------------------------------- addresses as 64-bit numbers

\* A u64 as four 16-bit limbs: Word(l3, l2, l1, l0) is the number
\* l3 * 2^48 + l2 * 2^32 + l1 * 2^16 + l0, kept as <<l0, l1, l2, l3>>.
Word(l3, l2, l1, l0) == <<l0, l1, l2, l3>>

\* 2^k
RECURSIVE Pow2(_)
Pow2(k) == IF k = 0 THEN 1 ELSE 2 * Pow2(k - 1)

Limb == Pow2(16)

\* n as u64, for a usize n below 2^31.
WordOf(n) == Word(0, 0, n \div Limb, n % Limb)

\* a & b, a | b and !a
And64(a, b) == [i \in 1 .. 4 |-> BitAnd(a[i], b[i])]
Orr64(a, b) == [i \in 1 .. 4 |-> BitOr(a[i], b[i])]
Not64(a) == [i \in 1 .. 4 |-> Limb - 1 - a[i]]

\* The carry into limb i of a + b.
RECURSIVE CarryInto(_, _, _)
CarryInto(a, b, i) ==
    IF i = 1 THEN 0 ELSE (a[i - 1] + b[i - 1] + CarryInto(a, b, i - 1)) \div Limb

\* a + b modulo 2^64, and whether the sum reaches 2^64.
WrappingAdd(a, b) == [i \in 1 .. 4 |-> (a[i] + b[i] + CarryInto(a, b, i)) % Limb]
Overflows(a, b) == CarryInto(a, b, 5) = 1

\* a - 1 for a > 0: the lowest non-zero limb gives, the limbs below it fill up.
MinusOne(a) ==
    [i \in 1 .. 4 |->
        IF \A j \in 1 .. (i - 1) : a[j] = 0
        THEN (IF a[i] = 0 THEN Limb - 1 ELSE a[i] - 1)
        ELSE a[i]]

\* Limb i of a, zero beyond the top.
LimbAt(a, i) == IF i \in 1 .. 4 THEN a[i] ELSE 0

\* a >> s and a << s for s in 0 .. 63, the latter modulo 2^64.
Shr(a, s) ==
    [i \in 1 .. 4 |->
        LimbAt(a, i + s \div 16) \div Pow2(s % 16)
        + (LimbAt(a, i + s \div 16 + 1) % Pow2(s % 16)) * Pow2(16 - (s % 16))]
Shl(a, s) ==
    [i \in 1 .. 4 |->
        (LimbAt(a, i - s \div 16) % Pow2(16 - (s % 16))) * Pow2(s % 16)
        + LimbAt(a, i - s \div 16 - 1) \div Pow2(16 - (s % 16))]

\* a % n for 0 < n < 2^15, limb by limb from the top.
RECURSIVE ModFrom(_, _, _)
ModFrom(a, n, i) ==
    IF i = 5 THEN 0 ELSE (ModFrom(a, n, i + 1) * Limb + a[i]) % n
Mod64(a, n) == ModFrom(a, n, 1)

\* a <= b
RECURSIVE LeFrom(_, _, _)
LeFrom(a, b, i) ==
    IF i = 0 THEN TRUE
    ELSE IF a[i] # b[i] THEN a[i] < b[i]
    ELSE LeFrom(a, b, i - 1)
Le64(a, b) == LeFrom(a, b, 4)

\* The value of a word below 2^31 as a number.
Small(a) == a[2] * Limb + a[1]

\* Mutant: the shift grows by nine bits once too often.
page_table_index64_shifted(addr, level) ==
    Small(And64(Shr(addr, 12 + level * 9), WordOf(511)))

\* PhysAddr::align_down and VirtAddr::align_down, the same body:
\* self.0 & !((align as u64) - 1)
addr_align_down(addr, align) == And64(addr, Not64(MinusOne(WordOf(align))))

\* PhysAddr::align_up and VirtAddr::align_up, the same body:
\* (self.0 + (align as u64) - 1) & !((align as u64) - 1). The addition panics
\* when it overflows in a build with overflow checks and wraps in one without.
addr_align_up(addr, align) ==
    {[panic |-> FALSE,
      val |-> And64(WrappingAdd(addr, MinusOne(WordOf(align))),
                    Not64(MinusOne(WordOf(align))))]}
    \cup (IF Overflows(addr, MinusOne(WordOf(align)))
          THEN {[panic |-> TRUE, val |-> addr]} ELSE {})

\* self.0 % align as u64 == 0
addr_is_aligned(addr, align) == Mod64(addr, align) = 0

\* VirtAddr::new: the assert on addr >> 48, then Self(addr).
virt_new(addr) ==
    [panic |-> ~(Shr(addr, 48) = WordOf(0) \/ Shr(addr, 48) = WordOf(65535)),
     val |-> addr]

\* VirtAddr::page_table_index: ((self.0 >> shift) & 0x1FF) as usize with
\* shift = 12 + (level - 1) * 9.
page_table_index64(addr, level) ==
    Small(And64(Shr(addr, 12 + (level - 1) * 9), WordOf(511)))

\* VirtAddr::page_offset: (self.0 & 0xFFF) as usize
page_offset64(addr) == Small(And64(addr, WordOf(4095)))

\* 64-bit values to be taken as addresses: small ones on and off page and
\* three-page boundaries, the two addresses of the kernel's self tests, values
\* around the canonical hole, and the top of the address space.
TestWords ==
    {Word(0, 0, 0, 0), Word(0, 0, 0, 1), Word(0, 0, 0, 4096), Word(0, 0, 0, 4660),
     Word(0, 0, 0, 8192), Word(0, 0, 0, 12288), Word(0, 0, 0, 12289),
     Word(0, 0, 1, 0),
     Word(65535, 32768, 0, 4660), Word(65535, 32768, 4660, 22136),
     Word(0, 32767, 65535, 65535), Word(0, 32768, 0, 0),
     Word(65535, 32768, 0, 0), Word(65535, 0, 0, 0), Word(1, 0, 0, 0),
     Word(65535, 65535, 65535, 61441), Word(65535, 65535, 65535, 65535)}

\* Alignments: one to four times 4096.
TestAligns == {k * PAGE_SIZE : k \in 1 .. 4}

\* An address under test: the value given with an alignment, then what one of
\* the operations made of it.
Addressing(at, addr, align, out) ==
    [op |-> "addr", at |-> at, addr |-> addr, align |-> align, out |-> out]

AddrInit ==
    /\ SetSelfNow(new)
    /\ initialized = FALSE
    /\ lastOp = Call("new", 0, 0, None)
    /\ live = {}
    /\ origin = Broken
    /\ boot = BootArgs(None, 0, 0)
    /\ mem = NoTables
    /\ tlb = NoTlb
    /\ \E addr \in TestWords, align \in TestAligns :
        pc = Addressing("given", addr, align, 0)
    /\ info = NoInfo
    /\ reads = {}

\* addr.align_down(align)
AddrAlignDown ==
    /\ pc.op = "addr"
    /\ pc.at = "given"
    /\ pc' = [pc EXCEPT !.at = "align_down", !.out = addr_align_down(pc.addr, pc.align)]
    /\ UNCHANGED <<alloc, initialized, lastOp, live, origin, boot, mem, tlb, info, reads>>

\* addr.align_up(align), in either build
AddrAlignUp ==
    /\ pc.op = "addr"
    /\ pc.at = "given"
    /\ \E r \in addr_align_up(pc.addr, pc.align) :
        pc' = [pc EXCEPT !.at = "align_up", !.out = r]
    /\ UNCHANGED <<alloc, initialized, lastOp, live, origin, boot, mem, tlb, info, reads>>

\* VirtAddr::new(addr)
AddrVirtNew ==
    /\ pc.op = "addr"
    /\ pc.at = "given"
    /\ pc' = [pc EXCEPT !.at = "new", !.out = virt_new(pc.addr)]
    /\ UNCHANGED <<alloc, initialized, lastOp, live, origin, boot, mem, tlb, info, reads>>

\* VirtAddr::new_unchecked(addr), then page_table_index for the four levels and
\* page_offset.
AddrDecompose ==
    /\ pc.op = "addr"
    /\ pc.at = "given"
    /\ pc' = [pc EXCEPT !.at = "decompose",
                        !.out = [index |-> [level \in 1 .. 4 |->
                                               page_table_index64(pc.addr, level)],
                                 offset |-> page_offset64(pc.addr)]]
    /\ UNCHANGED <<alloc, initialized, lastOp, live, origin, boot, mem, tlb, info, reads>>

AddrNext ==
    \/ AddrAlignDown
    \/ AddrAlignUp
    \/ AddrVirtNew
    \/ AddrDecompose

AddrSpec == AddrInit /\ [][AddrNext]_vars

\* ------------------------------------------------------- claims on addresses

\* C32: for every address a and every alignment n that is a positive multiple
\* of 4096, align_down(n) <= a <= align_up(n), both results are multiples of
\* n, and align_up does not wrap around 2^64 (nor stop on the overflow);
\* 0xFFFF_8000_0000_1234 aligns down to 0xFFFF_8000_0000_1000 and up to
\* 0xFFFF_8000_0000_2000 for n = 4096.
C32_AlignmentLaw ==
    pc.op = "addr" =>
        /\ pc.at = "align_down" =>
              /\ Le64(pc.out, pc.addr)
              /\ Mod64(pc.out, pc.align) = 0
              /\ (pc.addr = Word(65535, 32768, 0, 4660) /\ pc.align = PAGE_SIZE)
                    => pc.out = Word(65535, 32768, 0, 4096)
        /\ pc.at = "align_up" =>
              /\ ~pc.out.panic
              /\ Le64(pc.addr, pc.out.val)
              /\ Mod64(pc.out.val, pc.align) = 0
              /\ (pc.addr = Word(65535, 32768, 0, 4660) /\ pc.align = PAGE_SIZE)
                    => pc.out.val = Word(65535, 32768, 0, 8192)

\* Bit 47 of a, and whether bits 48..63 all equal it.
Bit47(a) == (a[3] \div Pow2(15)) % 2
Canonical(a) == a[4] = (IF Bit47(a) = 1 THEN Limb - 1 ELSE 0)

\* C33: VirtAddr::new accepts a 64-bit value if and only if it is canonical,
\* that is, bits 48..63 all equal bit 47; a value with bit 47 set and bits
\* 48..63 clear is rejected.
C33_CanonicalOnly ==
    (pc.op = "addr" /\ pc.at = "new") =>
        /\ ~pc.out.panic <=> Canonical(pc.addr)
        /\ ~pc.out.panic => pc.out.val = pc.addr

\* The low 48 bits of v put together again from the indices and the offset.
Recomposed(out) ==
    WrappingAdd(Shl(WordOf(out.index[4]), 39),
        WrappingAdd(Shl(WordOf(out.index[3]), 30),
            WrappingAdd(Shl(WordOf(out.index[2]), 21),
                WrappingAdd(Shl(WordOf(out.index[1]), 12), WordOf(out.offset)))))

\* The general part of C34: every index is below 512, the offset below 4096,
\* and the low 48 bits of v are index(4) * 2^39 + index(3) * 2^30 +
\* index(2) * 2^21 + index(1) * 2^12 + page_offset().
Decomposes ==
    /\ \A level \in 1 .. 4 : pc.out.index[level] \in 0 .. 511
    /\ pc.out.offset \in 0 .. 4095
    /\ Recomposed(pc.out) = And64(pc.addr, Word(0, 65535, 65535, 65535))

MaxDepth == 3
MaxNested == 2

\* Mutant: interrupts are enabled on the way out whatever they were before.
restore_always(were_enabled, flag) == TRUE

\* if were_enabled { enable_interrupts(); }: the interrupt flag afterwards.
restore(were_enabled, flag) == IF were_enabled THEN TRUE ELSE flag

\* One call of without_interrupts in progress: where it is, what
\* interrupts_enabled() returned to it, the flag when it was called, and the
\* nested calls its closure has made.
Frame(at, were_enabled, entry, nested) ==
    [at |-> at, were_enabled |-> were_enabled, entry |-> entry, nested |-> nested]

\* The processor running the mainline: the interrupt flag (RFLAGS.IF), the
\* calls of without_interrupts in progress, innermost last, the flag on entry
\* to and on return from the call that returned last, and whether an
\* interrupt has been taken outside every closure and inside one.
Cpu(flag, stack, last, taken) ==
    [op |-> "cpu", flag |-> flag, stack |-> stack, last |-> last, taken |-> taken]

\* Some closure passed to without_interrupts is being executed.
InClosure(stack) == \E i \in DOMAIN stack : stack[i].at = "closure"

IrqInit ==
    /\ SetSelfNow(new)
    /\ initialized = FALSE
    /\ lastOp = Call("new", 0, 0, None)
    /\ live = {}
    /\ origin = Broken
    /\ boot = BootArgs(None, 0, 0)
    /\ mem = NoTables
    /\ tlb = NoTlb
    /\ \E flag \in BOOLEAN : pc = Cpu(flag, << >>, None, {})
    /\ info = NoInfo
    /\ reads = {}

\* without_interrupts is called, by the mainline or by a closure.
IrqCall ==
    /\ pc.op = "cpu"
    /\ Len(pc.stack) < MaxDepth
    /\ pc.stack # << >> =>
          /\ pc.stack[Len(pc.stack)].at = "closure"
          /\ pc.stack[Len(pc.stack)].nested < MaxNested
    /\ pc' = [pc EXCEPT
                !.stack = Append(
                    IF pc.stack = << >> THEN pc.stack
                    ELSE [pc.stack EXCEPT ![Len(pc.stack)].nested = @ + 1],
                    Frame("called", FALSE, pc.flag, 0))]
    /\ UNCHANGED <<alloc, initialized, lastOp, live, origin, boot, mem, tlb, info, reads>>

\* let were_enabled = interrupts_enabled();
IrqRead ==
    /\ pc.op = "cpu"
    /\ pc.stack # << >>
    /\ pc.stack[Len(pc.stack)].at = "called"
    /\ pc' = [pc EXCEPT !.stack[Len(pc.stack)].at = "read",
                        !.stack[Len(pc.stack)].were_enabled = pc.flag]
    /\ UNCHANGED <<alloc, initialized, lastOp, live, origin, boot, mem, tlb, info, reads>>

\* disable_interrupts(); then f() begins.
IrqDisable ==
    /\ pc.op = "cpu"
    /\ pc.stack # << >>
    /\ pc.stack[Len(pc.stack)].at = "read"
    /\ pc' = [pc EXCEPT !.stack[Len(pc.stack)].at = "closure", !.flag = FALSE]
    /\ UNCHANGED <<alloc, initialized, lastOp, live, origin, boot, mem, tlb, info, reads>>

\* f() returns.
IrqClosureEnd ==
    /\ pc.op = "cpu"
    /\ pc.stack # << >>
    /\ pc.stack[Len(pc.stack)].at = "closure"
    /\ pc' = [pc EXCEPT !.stack[Len(pc.stack)].at = "result"]
    /\ UNCHANGED <<alloc, initialized, lastOp, live, origin, boot, mem, tlb, info, reads>>

\* if were_enabled { enable_interrupts(); } result
IrqRestore ==
    /\ pc.op = "cpu"
    /\ pc.stack # << >>
    /\ pc.stack[Len(pc.stack)].at = "result"
    /\ \E flag \in {restore(pc.stack[Len(pc.stack)].were_enabled, pc.flag)} :
        pc' = [pc EXCEPT !.flag = flag,
                         !.stack = SubSeq(pc.stack, 1, Len(pc.stack) - 1),
                         !.last = Some([entry |-> pc.stack[Len(pc.stack)].entry,
                                        exit |-> flag])]
    /\ UNCHANGED <<alloc, initialized, lastOp, live, origin, boot, mem, tlb, info, reads>>

\* An interrupt is delivered, which takes the flag being set; its handler
\* runs to its end and iretq restores the flags.
IrqTaken ==
    /\ pc.op = "cpu"
    /\ pc.flag
    /\ pc' = [pc EXCEPT !.taken = @ \cup {InClosure(pc.stack)}]
    /\ UNCHANGED <<alloc, initialized, lastOp, live, origin, boot, mem, tlb, info, reads>>

IrqNext ==
    \/ IrqCall
    \/ IrqRead
    \/ IrqDisable
    \/ IrqClosureEnd
    \/ IrqRestore
    \/ IrqTaken

IrqSpec == IrqInit /\ [][IrqNext]_vars

\* C35: interrupts are disabled for as long as a closure passed to
\* without_interrupts executes, so none is taken then; when a call returns the
\* interrupt flag is what it was when the call was made; this holds for nested
\* calls too, the inner one never enabling interrupts inside the outer closure.
C35_ScopedDisable ==
    pc.op = "cpu" =>
        /\ InClosure(pc.stack) => ~pc.flag
        /\ TRUE \notin pc.taken
        /\ pc.last.some => pc.last.val.exit = pc.last.val.entry

\* A nested call has returned into the closure of a call made with interrupts
\* enabled.
C35_Witness ==
    /\ pc.op = "cpu"
    /\ Len(pc.stack) = 1
    /\ pc.stack[1].at = "closure"
    /\ pc.stack[1].entry
    /\ pc.stack[1].nested = 1
    /\ pc.last.some
    /\ ~pc.last.val.entry

\* ------------------------ the allocator between mainline and interrupt handler

\* Frames the allocator manages beyond frame 0, which holds its bitmap.
RaceFrames == 2

\* Interrupts delivered in one run.
MaxIrqs == 2

\* Mutant: the mainline enters its call with the interrupt flag left as it is.
enter_call_no_cli(wrapped, flag) == flag

\* The interrupt flag once the mainline is inside its allocator call: cleared
\* by disable_interrupts when the call is made through without_interrupts.
enter_call(wrapped, flag) == IF wrapped THEN FALSE ELSE flag

\* The mainline between allocator calls.
Resting == [call |-> "none"]

\* The mainline inside allocate_frame or free_frame: the step it is at, the
\* frame it is about, the end and the half of the range it scans, what
\* interrupts_enabled() returned before, and the value it will return.
Inside(call, at, frame, end, half, were_enabled, ret) ==
    [call |-> call, at |-> at, frame |-> frame, end |-> end, half |-> half,
     were_enabled |-> were_enabled, ret |-> ret]

\* The processor with an allocator shared by the mainline and an interrupt
\* handler: whether the mainline wraps its calls in without_interrupts, the
\* interrupt flag, the mainline's position, the frames each side holds,
\* whether a frame was returned that was held already, and the interrupts
\* delivered so far.
Racing(wrapped, flag, main, held, twice, irqs) ==
    [op |-> "race", wrapped |-> wrapped, flag |-> flag, main |-> main, held |-> held,
     twice |-> twice, irqs |-> irqs]

\* The allocator after init on RaceFrames + 1 frames of Available memory with
\* an empty kernel image at 0: frame 0 holds the bitmap, the others are free.
RaceInit ==
    /\ SetSelfNow(init(new, Some(<<[base_addr |-> 0,
                                    length |-> (RaceFrames + 1) * PAGE_SIZE,
                                    mem_type |-> MemAvailable]>>), 0, 0))
    /\ initialized = TRUE
    /\ lastOp = Call("init", 0, 0, None)
    /\ live = {}
    /\ origin = Broken
    /\ boot = BootArgs(None, 0, 0)
    /\ mem = NoTables
    /\ tlb = NoTlb
    /\ \E wrapped \in BOOLEAN :
        pc = Racing(wrapped, TRUE, Resting, [main |-> {}, irq |-> {}], FALSE, 0)
    /\ info = NoInfo
    /\ reads = {}

\* The mainline calls allocate_frame, or free_frame on a frame it holds,
\* through without_interrupts or directly.
RaceCall ==
    /\ pc.op = "race"
    /\ pc.main = Resting
    /\ \/ /\ pc' = [pc EXCEPT
                      !.flag = enter_call(pc.wrapped, pc.flag),
                      !.main = Inside("allocate_frame", "test", start_frame, total_frames,
                                      "upper", pc.flag, None)]
       \/ \E frame \in pc.held.main :
            pc' = [pc EXCEPT
                      !.flag = enter_call(pc.wrapped, pc.flag),
                      !.held.main = @ \ {frame},
                      !.main = Inside("free_frame", "test", frame, 0, "upper", pc.flag, None)]
    /\ UNCHANGED <<alloc, initialized, lastOp, live, origin, boot, mem, tlb, info, reads>>

\* Test bit: is_frame_free(frame) in the loops of allocate_frame, with the end
\* of the first loop leading into the second and the end of the second to
\* None; the condition of free_frame.
RaceTestBit ==
    /\ pc.op = "race"
    /\ pc.main.call # "none"
    /\ pc.main.at = "test"
    /\ pc' = IF pc.main.call = "allocate_frame"
             THEN IF pc.main.frame >= pc.main.end
                  THEN IF pc.main.half = "upper"
                       THEN [pc EXCEPT !.main.half = "lower", !.main.frame = 0,
                                       !.main.end = start_frame]
                       ELSE [pc EXCEPT !.main.at = "return"]
                  ELSE IF is_frame_free(Self, pc.main.frame)
                       THEN [pc EXCEPT !.main.at = "write"]
                       ELSE [pc EXCEPT !.main.frame = @ + 1]
             ELSE IF pc.main.frame < total_frames /\ ~is_frame_free(Self, pc.main.frame)
                  THEN [pc EXCEPT !.main.at = "write"]
                  ELSE [pc EXCEPT !.main.at = "return"]
    /\ UNCHANGED <<alloc, initialized, lastOp, live, origin, boot, mem, tlb, info, reads>>

\* Set or clear bit: mark_frame_allocated, mark_frame_free.
RaceWriteBit ==
    /\ pc.op = "race"
    /\ pc.main.call # "none"
    /\ pc.main.at = "write"
    /\ SetSelf(IF pc.main.call = "allocate_frame"
               THEN mark_frame_allocated(Self, pc.main.frame)
               ELSE mark_frame_free(Self, pc.main.frame).self)
    /\ pc' = [pc EXCEPT !.main.at = "count"]
    /\ UNCHANGED <<initialized, lastOp, live, origin, boot, mem, tlb, info, reads>>

\* Update counter: free_frames.fetch_sub(1), fetch_add(1).
RaceCounter ==
    /\ pc.op = "race"
    /\ pc.main.call # "none"
    /\ pc.main.at = "count"
    /\ free_count' = IF pc.main.call = "allocate_frame" THEN free_count - 1
                     ELSE free_count + 1
    /\ pc' = [pc EXCEPT !.main.at = "hint"]
    /\ UNCHANGED <<bitmap, total_frames, start_frame, initialized, lastOp, live, origin,
                   boot, mem, tlb, info, reads>>

\* Update hint: start_frame = frame + 1, or frame if it is lower.
RaceHint ==
    /\ pc.op = "race"
    /\ pc.main.call # "none"
    /\ pc.main.at = "hint"
    /\ start_frame' = IF pc.main.call = "allocate_frame" THEN pc.main.frame + 1
                      ELSE IF pc.main.frame < start_frame THEN pc.main.frame
                      ELSE start_frame
    /\ pc' = [pc EXCEPT !.main.at = "return",
                        !.main.ret = IF pc.main.call = "allocate_frame"
                                     THEN Some(pc.main.frame * PAGE_SIZE) ELSE None]
    /\ UNCHANGED <<bitmap, total_frames, free_count, initialized, lastOp, live, origin,
                   boot, mem, tlb, info, reads>>

\* The call returns to the mainline, through the end of without_interrupts
\* if it was made through it.
RaceReturn ==
    /\ pc.op = "race"
    /\ pc.main.call # "none"
    /\ pc.main.at = "return"
    /\ pc' = [pc EXCEPT
                !.flag = IF pc.wrapped THEN restore(pc.main.were_enabled, pc.flag)
                         ELSE pc.flag,
                !.main = Resting,
                !.held.main = IF pc.main.ret.some
                              THEN @ \cup {pc.main.ret.val \div PAGE_SIZE} ELSE @,
                !.twice = \/ pc.twice
                          \/ /\ pc.main.ret.some
                             /\ pc.main.ret.val \div PAGE_SIZE
                                    \in pc.held.main \cup pc.held.irq]
    /\ UNCHANGED <<alloc, initialized, lastOp, live, origin, boot, mem, tlb, info, reads>>

\* An interrupt is delivered, the flag being set, and its handler calls
\* allocate_frame; the handler runs to its end with interrupts disabled.
RaceIrqAllocate ==
    /\ pc.op = "race"
    /\ pc.flag
    /\ pc.irqs < MaxIrqs
    /\ \E r \in {allocate_frame(Self)} :
        /\ SetSelf(r.self)
        /\ pc' = [pc EXCEPT
                    !.irqs = @ + 1,
                    !.held.irq = IF r.ret.some THEN @ \cup {r.ret.val \div PAGE_SIZE} ELSE @,
                    !.twice = \/ pc.twice
                              \/ /\ r.ret.some
                                 /\ r.ret.val \div PAGE_SIZE \in pc.held.main \cup pc.held.irq]
    /\ UNCHANGED <<initialized, lastOp, live, origin, boot, mem, tlb, info, reads>>

\* An interrupt is delivered and its handler frees a frame it holds.
RaceIrqFree ==
    /\ pc.op = "race"
    /\ pc.flag
    /\ pc.irqs < MaxIrqs
    /\ \E frame \in pc.held.irq :
        /\ SetSelf(free_frame(Self, frame * PAGE_SIZE))
        /\ pc' = [pc EXCEPT !.held.irq = @ \ {frame}, !.irqs = @ + 1]
    /\ UNCHANGED <<initialized, lastOp, live, origin, boot, mem, tlb, info, reads>>

RaceNext ==
    \/ RaceCall
    \/ RaceTestBit
    \/ RaceWriteBit
    \/ RaceCounter
    \/ RaceHint
    \/ RaceReturn
    \/ RaceIrqAllocate
    \/ RaceIrqFree

RaceSpec == RaceInit /\ [][RaceNext]_vars

\* C36: when every mainline call of the allocator runs inside
\* without_interrupts, no frame is handed out while it is held, by either
\* side, and in every state in which interrupts are enabled free_count is the
\* number of zero bits below total_frames (I2).
C36_ExclusionSuffices ==
    (pc.op = "race" /\ pc.wrapped) =>
        /\ ~pc.twice
        /\ pc.held.main \cap pc.held.irq = {}
        /\ pc.flag => free_count = Cardinality(FreeNow)

\* The other half of C36: without the wrapping the handler has cut into a
\* mainline call, the same frame is held by both sides and free_count no
\* longer is the number of zero bits.
C36_Witness ==
    /\ pc.op = "race"
    /\ ~pc.wrapped
    /\ pc.twice
    /\ pc.held.main \cap pc.held.irq # {}
    /\ free_count # Cardinality(FreeNow)

\* ------------------------------------------------------------- kernel_main

\* kernel_main before it calls init_memory: entered, or with the screen
\* cleared and the greeting printed.
Kernel(at) == [op |-> "kernel_main", at |-> at]

\* kernel_main in its halt loop; said is the last line init_memory printed.
Halted(said) == [op |-> "halt", said |-> said]

\* memory_map inside an iteration of its tag loop, with the tag at current.
AtTag(caller, pass, current, end) ==
    [op |-> "tag", caller |-> caller, pass |-> pass, current |-> current, end |-> end]

\* What the boot loader can hand over to kernel_main: the pairs and blobs of
\* BootInfos, and a blob whose first tag declares a size of 0.
KernelInfos ==
    BootInfos \cup {Blob(MULTIBOOT2_MAGIC, 65536, OtherTag(0) \o EndTag)}

KernelInit ==
    /\ SetSelfNow(new)
    /\ initialized = FALSE
    /\ lastOp = InitCalls(0)
    /\ live = {}
    /\ origin = Broken
    /\ boot = BootArgs(None, 0, 0)
    /\ mem = NoTables
    /\ tlb = NoTlb
    /\ pc = Kernel("entry")
    /\ info \in KernelInfos
    /\ reads = {}

\* clear_screen(); println(..)
ClearScreen ==
    /\ pc = Kernel("entry")
    /\ pc' = Kernel("cleared")
    /\ UNCHANGED <<alloc, initialized, lastOp, live, origin, boot, mem, tlb, info, reads>>

\* setup_idt(); println(..): init_memory is called next.
SetupIdt ==
    /\ pc = Kernel("cleared")
    /\ pc' = Idle
    /\ UNCHANGED <<alloc, initialized, lastOp, live, origin, boot, mem, tlb, info, reads>>

\* while current < end: the loop of memory_map is left or its body entered.
LoopTest ==
    /\ pc.op = "memory_map"
    /\ pc' = IF pc.current >= pc.end
             THEN Returned(pc.caller, pc.pass, FALSE, 0, << >>)
             ELSE AtTag(pc.caller, pc.pass, pc.current, pc.end)
    /\ UNCHANGED <<alloc, initialized, lastOp, live, origin, boot, mem, tlb, info, reads>>

\* The body of the loop of memory_map: break, return the iterator, or go on
\* to the next tag.
LoopBody ==
    /\ pc.op = "tag"
    /\ \E r \in {tag_step(info, pc.current)} :
        /\ reads' = reads \cup r.reads
        /\ pc' = IF ~r.done
                 THEN [Walking(pc.caller, pc.pass) EXCEPT !.current = r.current]
                 ELSE IF ~r.ret.some
                      THEN Returned(pc.caller, pc.pass, FALSE, 0, << >>)
                      ELSE Iterating(pc.caller, pc.pass, r.ret.val, pc.current, << >>, 0)
    /\ UNCHANGED <<alloc, initialized, lastOp, live, origin, boot, mem, tlb, info>>

\* init_memory has returned: the last two lines are printed and the halt loop
\* is entered, which nothing leaves.
Halt ==
    /\ pc.op = "finished"
    /\ pc' = Halted(pc.said)
    /\ UNCHANGED <<alloc, initialized, lastOp, live, origin, boot, mem, tlb, info, reads>>

KernelNext ==
    \/ ClearScreen
    \/ SetupIdt
    \/ InitMemory
    \/ LoopTest
    \/ LoopBody
    \/ NextEntry
    \/ NextPass
    \/ InitPhysical
    \/ Halt

\* The processor goes on executing kernel_main as long as it has a next step.
KernelSpec == KernelInit /\ [][KernelNext]_vars /\ WF_vars(KernelNext)

\* The steps of kernel_main come in program order: the screen is cleared
\* first, the IDT is set up next, init_memory is called after that, and the
\* halt loop is entered from the return of init_memory only and never left.
InOrder ==
    /\ pc'.op = "kernel_main" => (pc = Kernel("entry") /\ pc' = Kernel("cleared"))
    /\ pc' = Idle => pc = Kernel("cleared")
    /\ pc.op \in {"kernel_main", "idle"} => ~initialized'
    /\ pc'.op = "halt" => pc.op = "finished"
    /\ pc.op = "halt" => pc'.op = "halt"

\* C37: for every magic, address and blob, kernel_main clears the screen, sets
\* up the IDT and initialises memory in this order, then eventually enters
\* the halt loop and stays in it for ever; with an invalid magic it prints the
\* diagnostic and reaches the halt loop with the allocator never initialised.
C37_BootLiveness ==
    /\ [][InOrder]_vars
    /\ <>[](pc.op = "halt")
    /\ [](info.magic # MULTIBOOT2_MAGIC =>
            /\ ~initialized
            /\ pc.op = "halt" => pc.said = InvalidMagic)

\* ------------------------------------------------- claims across pages

\* C38: a call of map_to, map, unmap or update_flags on page p, whether it
\* succeeds or fails, leaves the leaf entry of every other page q as it was,
\* and with it translate(a) for every address a in q, also when p and q share
\* their level-1 table or the tables above it.
C38_PageLocal ==
    [][\A p \in Pages, q \in Pages :
           (/\ p # q
            /\ \E op \in {"map_to", "map", "unmap", "update_flags"} : MCalled(op, p))
               => /\ LeafOf(mem', q) = LeafOf(mem, q)
                  /\ TranslatePage(mem', q) = TranslatePage(mem, q)]_vars

\* One of the two pages sharing a level-1 table has just been unmapped while
\* the other is mapped.
C38_Witness ==
    /\ lastOp.op = "unmap"
    /\ lastOp.ret.ok
    /\ lastOp.page = VirtAddr(0, 0, 0, 1, 0, 0)
    /\ Mapped(mem, VirtAddr(0, 0, 0, 1, 1, 0))
    /\ ~Mapped(mem, VirtAddr(0, 0, 0, 1, 0, 0))

\* --------------------------------------- the allocator that was never set up

\* The boot information for which init_memory returns before it calls
\* init_physical_allocator: a wrong magic, or a null address.
SkippedInfos == {b \in BootInfos : b.magic # MULTIBOOT2_MAGIC \/ b.addr = 0}

\* PHYSICAL_ALLOCATOR is BitmapAllocator::new(); the page tables are the boot
\* loader's; init_memory has not been called yet.
InertInit ==
    /\ SetSelfNow(new)
    /\ initialized = FALSE
    /\ lastOp = Call("new", 0, 0, None)
    /\ live = {}
    /\ origin = Broken
    /\ boot = BootArgs(None, 0, 0)
    /\ mem = BootTables
    /\ tlb = NoTlb
    /\ pc = Idle
    /\ info \in SkippedInfos
    /\ reads = {}

InertNext ==
    \/ InitMemory
    \/ AllocateFrame
    \/ AllocateFrames
    \/ FreeFrame
    \/ FreeFrames
    \/ MapTo
    \/ Map
    \/ Unmap
    \/ UpdateFlags

InertSpec == InertInit /\ [][InertNext]_vars

\* The walk to the page's level-1 entry stops at an entry that is not present.
NeedsFrame(m, page) ==
    LET r == page_table_entry(m, page)
    IN  ~r.ok /\ r.val = "PageAlreadyMapped"

\* The result is Err(MapError::FrameAllocationFailed).
FailsAllocation(ret) == ~ret.ok /\ ret.val = "FrameAllocationFailed"

\* C39: as long as the allocator was not initialised, whether init_memory was
\* never called or returned early on a wrong magic or a null address,
\* allocate_frame and allocate_frames(n) return None for every n, free_frame
\* and free_frames change nothing and the bitmap has no byte, memory_stats()
\* is (0, 0, 0), and map, which allocates a frame first, and map_to on a page
\* whose tables are missing fail with FrameAllocationFailed.
C39_InertAllocator ==
    ~initialized =>
        /\ Self = new
        /\ DOMAIN bitmap = {}
        /\ memory_stats(Self) = <<0, 0, 0>>
        /\ allocate_frame(Self) = [self |-> new, ret |-> None]
        /\ \A n \in 0 .. MaxCount : allocate_frames(Self, n) = [self |-> new, ret |-> None]
        /\ \A a \in Addrs : free_frame(Self, a) = new
        /\ \A a \in Addrs, n \in 0 .. MaxCount : free_frames(Self, a, n) = new
        /\ lastOp.op \in {"allocate_frame", "allocate_frames"} => lastOp.ret = None
        /\ lastOp.op = "map" => FailsAllocation(lastOp.ret)
        /\ \A page \in Pages :
               NeedsFrame(mem, page) =>
                   \A flags \in FlagSets :
                       /\ FailsAllocation(map(St, page, flags).ret)
                       /\ \A frame \in MapToFrames :
                              FailsAllocation(map_to(St, page, frame, flags).ret)
        /\ mem = BootTables

\* init_memory has returned on a wrong magic, and a map of a page whose
\* level-1 table is missing has just failed.
C39_Witness ==
    /\ ~initialized
    /\ pc = Finished(InvalidMagic)
    /\ lastOp.op = "map"
    /\ NeedsFrame(mem, lastOp.page)
    /\ ~lastOp.ret.ok

====
